---- MODULE Spec2Model ----
(***************************************************************************)
(* OCR-CLI: the document-processing use cases (application/use_cases.py),   *)
(* the text quality score and the text corrector (utils/text_validator.py), *)
(* the OpenCV preprocessing pipeline (adapters/ocr_tesseract_opencv.py),    *)
(* the image processor (utils/image_processor.py), the file storage         *)
(* (adapters/storage_filesystem.py) and the interactive menu                *)
(* (interfaces/cli/menu.py).                                                *)
(*                                                                          *)
(* Scores are fixed-point numbers in thousandths: the confidence 60.0 of    *)
(* the 0-100 scale is 60000, the composite 1.0 of the 0-1 scale is 1000.    *)
(***************************************************************************)
EXTENDS Integers, Sequences, FiniteSets, TLC

VARIABLES
    \* ---- construction of the use case (ProcessDocument / EnhancedProcessDocument)
    useCase,                 \* "basic" = ProcessDocument, "enhanced" = EnhancedProcessDocument
    hasMetricsApi,           \* hasattr(self.ocr, 'extract_with_metrics')
    min_quality_threshold,   \* self.min_quality_threshold
    enable_auto_retry,       \* self.enable_auto_retry
    maxAttempts,             \* the attempt budget of the caller's configuration
    \* ---- one invocation of __call__
    pc,                      \* position inside __call__
    text,                    \* local `text`
    quality_score,           \* local `quality_score`
    ocr_avg_confidence,      \* metrics['ocr_metrics']['average_confidence']
    attempts,                \* results the engine returned, in order: [text, metrics, score]
    ocrCalls,                \* calls made on the recognition engine
    warnings,                \* logger.warning calls
    tables,                  \* local `tables`
    saveArgs,                \* the arguments of each call of storage.save: [text, tables]
    stored,                  \* the documents storage.save kept: a sequence of [text, tables]
    returned,                \* TRUE once __call__ returned its tuple
    exception,               \* the exception that left __call__, or NoException
    errorRecorded,           \* metrics['processing_summary'] carries 'error'
    quality_analysis,        \* metrics['quality_analysis']: empty, or the one record set
    faults,                  \* the collaborators that raised during this invocation
    \* ---- TesseractOpenCVAdapter: its configuration and the page last processed
    enable_preprocessing,
    enable_deskewing,
    enable_denoising,
    enable_contrast_enhancement,
    page,                    \* empty, or the page last processed: its image, the
                             \* raster handed to pytesseract (none if the page
                             \* raised), the stages applied in order, the error
    \* ---- AdvancedImageProcessor.assess_image_quality
    assessment,              \* empty, or the raster last assessed with its sub-scores
                             \* and composite, in thousandths
    \* ---- TextValidator
    scored,                  \* empty, or the text last scored with the five terms of
                             \* calculate_text_quality_score and its result
    corrected,               \* empty, or the text last corrected, with its correction
                             \* and the correction of its correction
    contextual,              \* empty, or the text last handed to
                             \* contextual_number_letter_correction, with the result
    \* ---- geometric normalization (adapter and AdvancedImageProcessor)
    geometry,                \* empty, or the last call of _correct_skew, auto_deskew or
                             \* auto_perspective_correction: its input, what the
                             \* detector found, the raster returned, the error
    advanced,                \* empty, or the last call of advanced_preprocessing
    ordered,                 \* empty, or the last call of order_points: pts and rect
    \* ---- FileStorage
    disk,                    \* the files under out_dir: a set of [path, content]
    saves,                   \* the calls of FileStorage.save so far, with their outcome
    integration,             \* empty, or the loop of _integrate_tables_in_text_simple
                             \* under way: its arguments, locals and the indices visited
    \* ---- TextValidator, one correction step alone
    fixed,                   \* empty, or the last call of fix_punctuation or
                             \* fix_capitalization: its text and its result
    \* ---- interfaces/cli/menu.py
    menu                     \* the interactive session of main(): its position, its
                             \* locals and the calls of process_document it made

configVars == <<useCase, hasMetricsApi, min_quality_threshold, enable_auto_retry, maxAttempts>>

callVars == <<pc, text, quality_score, ocr_avg_confidence, attempts, ocrCalls, warnings,
              tables, saveArgs, stored, returned, exception, errorRecorded,
              quality_analysis, faults>>

adapterVars == <<enable_preprocessing, enable_deskewing, enable_denoising,
                 enable_contrast_enhancement>>

\* the state of the library classes the use cases do not touch
textVars == <<scored, corrected, contextual, fixed>>

geomVars == <<geometry, advanced, ordered>>

storeVars == <<disk, saves, integration>>

cliVars == <<menu>>

libVars == <<textVars, geomVars, storeVars, cliVars>>

\* no library class has been used yet
InitLib ==
    /\ scored = <<>>
    /\ corrected = <<>>
    /\ contextual = <<>>
    /\ geometry = <<>>
    /\ advanced = <<>>
    /\ ordered = <<>>
    /\ disk = {}
    /\ saves = <<>>
    /\ integration = <<>>
    /\ fixed = <<>>
    /\ menu = <<>>

vars == <<configVars, callVars, adapterVars, page, assessment, libVars>>

NoException == "none"

\* ---------------------------------------------------------------------------
\* Bounds of the model
\* ---------------------------------------------------------------------------
MaxAttemptsBound == 3

\* widest page raster (rasters are one row of pixels)
MaxWidth == 2

\* widest raster handed to the quality assessor
MaxSampleWidth == 3

\* longest text handed to the validator's score
MaxTextLen == 3

\* texts the recognition engine may return (sequences of characters)
Texts == { <<>>, <<"O", "k", ".">>, <<"#", "1">>, <<" ">> }

\* confidences an engine may report (0-100 scale, in thousandths)
Confidences == { 0, 30000, 60000, 70000, 90000, 100000 }

\* ocr_result.metrics: the set of its average_confidence attribute, empty when
\* the metrics object carries no such attribute
MetricsObjects == { {} } \cup { {c} : c \in Confidences }

Thresholds == { 60000, 80000 }

\* table lists the table extractor may return
TableLists == { <<>>, <<"t1">>, <<"t1", "t2">> }

\* ---------------------------------------------------------------------------
\* utils/text_validator.py : character classes of the modelled alphabet
\* ---------------------------------------------------------------------------
UpperLetters == { "O", "H", "S" }
LowerLetters == { "k", "a", "l" }
DigitChars == { "0", "1", "5" }
Whitespace == { " ", "\n" }
\* the class [.!?] of the sentence splitter
Terminators == { ".", "!", "?" }
\* the characters of the class of calculate_special_chars_ratio (line 318) that
\* the modelled alphabet has
ProblematicChars == { "~", "@", "#", "$", "%", "&", "*", "+", "=", ":", ";", "<", ">",
                      "?", "/" }
\* the class \w
WordChars == UpperLetters \cup LowerLetters \cup DigitChars \cup { "_" }
Alphabet == WordChars \cup Whitespace \cup Terminators \cup ProblematicChars \cup { "," }

RECURSIVE SumSeq(_)
SumSeq(q) == IF q = <<>> THEN 0 ELSE Head(q) + SumSeq(Tail(q))

\* the maximal runs of characters of class C in s, in order (re.findall of C+,
\* str.split() for the class of the non-blank characters)
RECURSIVE RunsFrom(_, _, _, _)
RunsFrom(s, C, i, cur) ==
    IF i > Len(s) THEN (IF cur = <<>> THEN <<>> ELSE <<cur>>)
    ELSE IF s[i] \in C THEN RunsFrom(s, C, i + 1, Append(cur, s[i]))
    ELSE (IF cur = <<>> THEN <<>> ELSE <<cur>>) \o RunsFrom(s, C, i + 1, <<>>)

Runs(s, C) == RunsFrom(s, C, 1, <<>>)

\* re.split(r'[C]+', s): the pieces between maximal runs of separators,
\* empty leading and trailing pieces included
RECURSIVE SplitRunsFrom(_, _, _, _)
SplitRunsFrom(s, C, i, cur) ==
    IF i > Len(s) THEN <<cur>>
    ELSE IF s[i] \in C
         THEN IF i > 1 /\ s[i - 1] \in C
              THEN SplitRunsFrom(s, C, i + 1, cur)
              ELSE <<cur>> \o SplitRunsFrom(s, C, i + 1, <<>>)
         ELSE SplitRunsFrom(s, C, i + 1, Append(cur, s[i]))

\* str.split(sep) for a one-character separator: one piece per separator, plus one
RECURSIVE SplitEachFrom(_, _, _, _)
SplitEachFrom(s, sep, i, cur) ==
    IF i > Len(s) THEN <<cur>>
    ELSE IF s[i] = sep THEN <<cur>> \o SplitEachFrom(s, sep, i + 1, <<>>)
    ELSE SplitEachFrom(s, sep, i + 1, Append(cur, s[i]))

\* str.strip()
RECURSIVE LStrip(_)
LStrip(s) == IF s # <<>> /\ Head(s) \in Whitespace THEN LStrip(Tail(s)) ELSE s

RECURSIVE RStrip(_)
RStrip(s) ==
    IF s # <<>> /\ s[Len(s)] \in Whitespace THEN RStrip(SubSeq(s, 1, Len(s) - 1)) ELSE s

Strip(s) == RStrip(LStrip(s))

\* len(s.split())
WordCount(s) == Len(Runs(s, Alphabet \ Whitespace))

\* str.isalpha() of a non-empty word
IsAlphaWord(w) == \A i \in 1..Len(w) : w[i] \in UpperLetters \cup LowerLetters

\* the sentences of both sentence-based metrics: re.split(r'[.!?]+', text)
Sentences(t) == SplitRunsFrom(t, Terminators, 1, <<>>)

\* calculate_word_ratio, in thousandths
calculate_word_ratio(t) ==
    LET words == Runs(t, WordChars)
        valid == Cardinality({ i \in 1..Len(words) :
                                 Len(words[i]) > 1 /\ IsAlphaWord(words[i]) })
    IN  IF words = <<>> THEN 0 ELSE (valid * 1000) \div Len(words)

\* calculate_punctuation_ratio, in thousandths; the average sentence length is
\* compared as total words against bounds times the number of sentences
calculate_punctuation_ratio(t) ==
    LET sentences == Sentences(t)
        n == Len(sentences)
        total == SumSeq([ i \in 1..n |-> WordCount(Strip(sentences[i])) ])
    IN  IF n < 2 THEN 500
        ELSE IF 10 * n <= total /\ total <= 25 * n THEN 1000
        ELSE IF 5 * n <= total /\ total <= 35 * n THEN 700
        ELSE 300

\* calculate_capitalization_score, in thousandths
calculate_capitalization_score(t) ==
    LET sentences == Sentences(t)
        properly_capitalized ==
            Cardinality({ i \in 1..Len(sentences) :
                            /\ Strip(sentences[i]) # <<>>
                            /\ Strip(sentences[i])[1] \in UpperLetters })
    IN  IF sentences = <<>> THEN 0
        ELSE (properly_capitalized * 1000) \div Len(sentences)

\* mutation: the problematic characters counted per whitespace-separated word
\* instead of per character
calculate_special_chars_ratio_per_word(t) ==
    IF t = <<>> \/ WordCount(t) = 0 THEN 0
    ELSE (1000 * Cardinality({ i \in 1..Len(t) : t[i] \in ProblematicChars }))
            \div WordCount(t)

\* calculate_special_chars_ratio, in thousandths
calculate_special_chars_ratio(t) ==
    IF t = <<>> THEN 0
    ELSE (Cardinality({ i \in 1..Len(t) : t[i] \in ProblematicChars }) * 1000) \div Len(t)

\* calculate_line_consistency, in thousandths: 1 / (1 + variance / 100) with
\* variance = (n * sum(l^2) - sum(l)^2) / n^2
calculate_line_consistency(t) ==
    LET lines == SplitEachFrom(t, "\n", 1, <<>>)
        kept == { i \in 1..Len(lines) : Strip(lines[i]) # <<>> }
        n == Cardinality(kept)
        lens == [ i \in 1..Len(lines) |-> IF i \in kept THEN Len(Strip(lines[i])) ELSE 0 ]
        sum1 == SumSeq(lens)
        sum2 == SumSeq([ i \in 1..Len(lines) |-> lens[i] * lens[i] ])
        consistency == (1000 * 100 * n * n) \div (100 * n * n + n * sum2 - sum1 * sum1)
    IN  IF Len(lines) < 2 THEN 1000
        ELSE IF n = 0 THEN 0
        ELSE IF consistency > 1000 THEN 1000 ELSE consistency

\* calculate_text_quality_score, in thousandths
calculate_text_quality_score(t) ==
    LET quality_score_ ==
            ( calculate_word_ratio(t) * 3
            + calculate_punctuation_ratio(t) * 2
            + calculate_capitalization_score(t) * 2
            + (1000 - calculate_special_chars_ratio(t)) * 2
            + calculate_line_consistency(t) * 1 ) \div 10
    IN  IF Strip(t) = <<>> THEN 0
        ELSE IF quality_score_ > 1000 THEN 1000
        ELSE IF quality_score_ < 0 THEN 0
        ELSE quality_score_

\* the characters and the texts handed to the validator
ScoreChars == { "O", "k", "1", "#", " ", "\n", "." }

TextsUpTo(chars, n) == UNION { [1..k -> chars] : k \in 0..n }

\* one call of calculate_text_quality_score, its five terms kept (lines 254-269)
ScoreText ==
    /\ scored = <<>>
    /\ \E t \in TextsUpTo(ScoreChars, MaxTextLen) :
         scored' = << [ text |-> t,
                        word_ratio |-> calculate_word_ratio(t),
                        punctuation_ratio |-> calculate_punctuation_ratio(t),
                        capitalization_score |-> calculate_capitalization_score(t),
                        special_chars_term |-> 1000 - calculate_special_chars_ratio(t),
                        line_consistency |-> calculate_line_consistency(t),
                        quality_score |-> calculate_text_quality_score(t) ] >>
    /\ UNCHANGED <<configVars, callVars, adapterVars, page, assessment, corrected, contextual,
                   fixed, geomVars, storeVars, cliVars>>

\* ---------------------------------------------------------------------------
\* utils/text_validator.py : auto_correct_ocr_errors and its steps
\* ---------------------------------------------------------------------------
LowerAlpha == <<"a", "b", "c", "d", "e", "f", "g", "h", "i", "j", "k", "l",
              "m", "n", "o", "p", "q", "r", "s", "t", "u", "v", "w", "x",
              "y", "z">>

UpperAlpha == <<"A", "B", "C", "D", "E", "F", "G", "H", "I", "J", "K", "L",
              "M", "N", "O", "P", "Q", "R", "S", "T", "U", "V", "W", "X",
              "Y", "Z">>

AsciiLetters == { LowerAlpha[i] : i \in 1..26 } \cup { UpperAlpha[i] : i \in 1..26 }

\* the class \d
Digits10 == { "0", "1", "2", "3", "4", "5", "6", "7", "8", "9" }

\* the class [,.;:!?] of fix_punctuation
PunctuationMarks == { ",", ".", ";", ":", "!", "?" }

IndexIn(c, q) ==
    IF \E i \in 1..Len(q) : q[i] = c THEN CHOOSE i \in 1..Len(q) : q[i] = c ELSE 0

\* str.upper() and str.lower() of one character
Upper(c) == IF IndexIn(c, LowerAlpha) > 0 THEN UpperAlpha[IndexIn(c, LowerAlpha)] ELSE c

Lower(c) == IF IndexIn(c, UpperAlpha) > 0 THEN LowerAlpha[IndexIn(c, UpperAlpha)] ELSE c

LowerText(s) == [i \in 1..Len(s) |-> Lower(s[i])]

\* Op applied to the value of v (one statement running on the result of the
\* statement before it)
Then(v, Op(_)) == CHOOSE r \in { Op(x) : x \in {v} } : TRUE

\* str.replace(key, val): the occurrences of key replaced from left to right,
\* without overlap
RECURSIVE ReplaceFrom(_, _, _, _)
ReplaceFrom(s, key, val, i) ==
    IF i > Len(s) THEN <<>>
    ELSE IF i + Len(key) - 1 <= Len(s) /\ SubSeq(s, i, i + Len(key) - 1) = key
         THEN val \o ReplaceFrom(s, key, val, i + Len(key))
         ELSE <<s[i]>> \o ReplaceFrom(s, key, val, i + 1)

Replace(s, key, val) == ReplaceFrom(s, key, val, 1)

\* str.split(): the maximal runs of non-blank characters
RECURSIVE WordsFrom(_, _, _)
WordsFrom(s, i, cur) ==
    IF i > Len(s) THEN (IF cur = <<>> THEN <<>> ELSE <<cur>>)
    ELSE IF s[i] \notin Whitespace THEN WordsFrom(s, i + 1, Append(cur, s[i]))
    ELSE (IF cur = <<>> THEN <<>> ELSE <<cur>>) \o WordsFrom(s, i + 1, <<>>)

Words(s) == WordsFrom(s, 1, <<>>)

\* sep.join(pieces)
RECURSIVE Join(_, _)
Join(pieces, sep) ==
    IF pieces = <<>> THEN <<>>
    ELSE IF Len(pieces) = 1 THEN pieces[1]
    ELSE pieces[1] \o sep \o Join(Tail(pieces), sep)

\* self.common_ocr_errors, in the insertion order its items() are visited in
\* ("EUR" is the one character of the euro sign)
common_ocr_errors ==
    << <<<<"0">>, <<"O">>>>, <<<<"O">>, <<"0">>>>, <<<<"1">>, <<"l">>>>,
       <<<<"l">>, <<"1">>>>, <<<<"I">>, <<"1">>>>, <<<<"5">>, <<"S">>>>,
       <<<<"S">>, <<"5">>>>, <<<<"6">>, <<"G">>>>, <<<<"G">>, <<"6">>>>,
       <<<<"8">>, <<"B">>>>, <<<<"B">>, <<"8">>>>,
       <<<<"r", "n">>, <<"m">>>>, <<<<"v", "v">>, <<"w">>>>,
       <<<<"n", "n">>, <<"ñ">>>>, <<<<"c", "l">>, <<"d">>>>,
       <<<<"f", "i">>, <<"ñ">>>>, <<<<"l", "i">>, <<"h">>>>,
       <<<<"¢">>, <<"c">>>>, <<<<"EUR">>, <<"e">>>>, <<<<"£">>, <<"E">>>>,
       <<<<"§">>, <<"s">>>>, <<<<"¿">>, <<"?">>>>, <<<<"¡">>, <<"!">>>>,
       <<<<" ", ",">>, <<",">>>>, <<<<" ", ".">>, <<".">>>>,
       <<<<" ", ";">>, <<";">>>>, <<<<"(", " ">>, <<"(">>>>,
       <<<<" ", ")">>, <<")">>>>, <<<<"[", " ">>, <<"[">>>>,
       <<<<" ", "]">>, <<"]">>>> >>

\* unicodedata.normalize('NFKC', s): the ASCII characters and the other
\* characters of the table are their own normal form; the feminine ordinal
\* indicator and the superscript two stand for the compatibility characters
NFKC(s) ==
    Replace(Replace(s, <<"ª">>, <<"a">>), <<"²">>, <<"2">>)

\* lines 89-90: every entry of the table applied in turn to the whole text
RECURSIVE ApplyErrorsFrom(_, _)
ApplyErrorsFrom(s, k) ==
    IF k > Len(common_ocr_errors) THEN s
    ELSE Then(Replace(s, common_ocr_errors[k][1], common_ocr_errors[k][2]),
              LAMBDA x : ApplyErrorsFrom(x, k + 1))

ApplyCommonErrors(s) == ApplyErrorsFrom(s, 1)

\* self.spanish_patterns['articles'] and ['prepositions']
articles ==
    { <<"e", "l">>, <<"l", "a">>, <<"l", "a", "s">>, <<"l", "o", "s">>,
      <<"u", "n">>, <<"u", "n", "a">>, <<"u", "n", "a", "s">>,
      <<"u", "n", "o", "s">> }

prepositions ==
    { <<"a">>, <<"a", "n", "t", "e">>, <<"b", "a", "j", "o">>,
      <<"c", "o", "n">>, <<"c", "o", "n", "t", "r", "a">>, <<"d", "e">>,
      <<"d", "e", "s", "d", "e">>, <<"e", "n">>,
      <<"e", "n", "t", "r", "e">>, <<"h", "a", "c", "i", "a">>,
      <<"h", "a", "s", "t", "a">>, <<"p", "a", "r", "a">>,
      <<"p", "o", "r">>, <<"s", "e", "g", "ú", "n">>, <<"s", "i", "n">>,
      <<"s", "o", "b", "r", "e">>, <<"t", "r", "a", "s">> }

\* mutation: the word that follows may be a preposition too
IsTextContext_NextPreposition(prev_word, next_word) ==
    \/ prev_word \in articles
    \/ prev_word \in prepositions
    \/ next_word \in articles
    \/ next_word \in prepositions

\* lines 122-124: the condition of the first branch
IsTextContext(prev_word, next_word) ==
    \/ prev_word \in articles
    \/ prev_word \in prepositions
    \/ next_word \in articles

\* word.replace('0', 'O').replace('1', 'l').replace('5', 'S')
DigitsToLetters(word) ==
    Replace(Replace(Replace(word, <<"0">>, <<"O">>), <<"1">>, <<"l">>), <<"5">>, <<"S">>)

\* lines 113-141: the correction of words[i]
CorrectWord(words, i) ==
    LET word == words[i]
        prev_word == IF i > 1 THEN LowerText(words[i - 1]) ELSE <<>>
        next_word == IF i < Len(words) THEN LowerText(words[i + 1]) ELSE <<>>
    IN  IF IsTextContext(prev_word, next_word)
        THEN DigitsToLetters(word)
        ELSE IF \E k \in 1..Len(word) : word[k] \in AsciiLetters
        THEN Replace(Replace(word, <<"0">>, <<"O">>), <<"1">>, <<"l">>)
        ELSE IF \A k \in 1..Len(word) : word[k] \in Digits10 \cup { ".", "," }
        THEN Replace(Replace(Replace(word, <<"O">>, <<"0">>), <<"l">>, <<"1">>),
                     <<"S">>, <<"5">>)
        ELSE word

contextual_number_letter_correction(t) ==
    LET words == Words(t)
    IN  Join([i \in 1..Len(words) |-> CorrectWord(words, i)], <<" ">>)

\* re.sub(r'\s+', ' ', s)
RECURSIVE CollapseFrom(_, _)
CollapseFrom(s, i) ==
    IF i > Len(s) THEN <<>>
    ELSE IF s[i] \notin Whitespace THEN <<s[i]>> \o CollapseFrom(s, i + 1)
    ELSE IF i > 1 /\ s[i - 1] \in Whitespace THEN CollapseFrom(s, i + 1)
    ELSE <<" ">> \o CollapseFrom(s, i + 1)

CollapseWhitespace(s) == CollapseFrom(s, 1)

\* the first non-blank character at or after position i, and the last one at or
\* before it; <<>> when there is none
NextNonBlank(s, i) ==
    IF \E j \in i..Len(s) : s[j] \notin Whitespace
    THEN <<s[CHOOSE j \in i..Len(s) :
                /\ s[j] \notin Whitespace
                /\ \A k \in i..(j - 1) : s[k] \in Whitespace]>>
    ELSE <<>>

PrevNonBlank(s, i) ==
    IF \E j \in 1..i : s[j] \notin Whitespace
    THEN <<s[CHOOSE j \in 1..i :
                /\ s[j] \notin Whitespace
                /\ \A k \in (j + 1)..i : s[k] \in Whitespace]>>
    ELSE <<>>

Keep(s, kept) ==
    LET F[i \in 0..Len(s)] ==
            IF i = 0 THEN <<>>
            ELSE IF i \in kept THEN Append(F[i - 1], s[i]) ELSE F[i - 1]
    IN  F[Len(s)]

\* re.sub(r'\s+([C])', r'\1', s): a blank run standing before a character of C
\* is removed
DropBlanksBefore(s, C) ==
    Keep(s, { i \in 1..Len(s) :
                ~(s[i] \in Whitespace /\ NextNonBlank(s, i) # <<>>
                    /\ NextNonBlank(s, i)[1] \in C) })

\* re.sub(r'[C]\s+', C, s): a blank run standing after a character of C is removed
DropBlanksAfter(s, C) ==
    Keep(s, { i \in 1..Len(s) :
                ~(s[i] \in Whitespace /\ PrevNonBlank(s, i) # <<>>
                    /\ PrevNonBlank(s, i)[1] \in C) })

\* re.sub(r'([,.;:!?])([^\s])', r'\1 \2', s): the matches are found from left to
\* right and do not overlap
RECURSIVE SpaceAfterMarksFrom(_, _)
SpaceAfterMarksFrom(s, i) ==
    IF i > Len(s) THEN <<>>
    ELSE IF s[i] \in PunctuationMarks /\ i < Len(s) /\ s[i + 1] \notin Whitespace
         THEN <<s[i], " ", s[i + 1]>> \o SpaceAfterMarksFrom(s, i + 2)
         ELSE <<s[i]>> \o SpaceAfterMarksFrom(s, i + 1)

fix_punctuation(t) ==
    LET t1 == DropBlanksBefore(t, PunctuationMarks)
        t2 == SpaceAfterMarksFrom(t1, 1)
        t3 == DropBlanksAfter(t2, { "(" })
        t4 == DropBlanksBefore(t3, { ")" })
        t5 == DropBlanksAfter(t4, { "[" })
        t6 == DropBlanksBefore(t5, { "]" })
        t7 == DropBlanksAfter(t6, { "\"" })
    IN  DropBlanksBefore(t7, { "\"" })

\* sentence[0].upper() + sentence[1:], sentence.upper() for one character
Capitalize(sentence) ==
    [i \in 1..Len(sentence) |-> IF i = 1 THEN Upper(sentence[i]) ELSE sentence[i]]

\* re.sub(r'([.!?]\s+)([a-z])', ...): a lower-case letter standing after a
\* terminator and at least one blank is made upper case
UpperAfterTerminator(s) ==
    [i \in 1..Len(s) |->
        IF /\ IndexIn(s[i], LowerAlpha) > 0
           /\ i > 1 /\ s[i - 1] \in Whitespace
           /\ PrevNonBlank(s, i - 1) # <<>>
           /\ PrevNonBlank(s, i - 1)[1] \in Terminators
        THEN Upper(s[i]) ELSE s[i]]

fix_capitalization(t) ==
    LET stripped == [i \in 1..Len(Sentences(t)) |-> Strip(Sentences(t)[i])]
        corrected_sentences ==
            [i \in 1..Len(SelectSeq(stripped, LAMBDA x : x # <<>>)) |->
                Capitalize(SelectSeq(stripped, LAMBDA x : x # <<>>)[i])]
    IN  UpperAfterTerminator(Join(corrected_sentences, <<".", " ">>))

\* lines 83-104, one statement after the other
auto_correct_ocr_errors(t) ==
    LET s1 == Then(t, LAMBDA x : NFKC(x))
        s2 == Then(s1, LAMBDA x : ApplyCommonErrors(x))
        s3 == Then(s2, LAMBDA x : contextual_number_letter_correction(x))
        s4 == Then(s3, LAMBDA x : CollapseWhitespace(x))
        s5 == Then(s4, LAMBDA x : fix_punctuation(x))
        s6 == Then(s5, LAMBDA x : fix_capitalization(x))
    IN  Then(s6, LAMBDA x : Strip(x))

\* the characters of the texts handed to the corrector and to the contextual
\* correction
CorrectChars == { "b", "B", "a", " ", ",", "." }

ContextChars == { "a", "l", "5", "0", " ", "x" }

\* one call of auto_correct_ocr_errors, and a second call on its result; the
\* table of line 89 applied once and twice
CorrectText ==
    /\ corrected = <<>>
    /\ \E t \in TextsUpTo(CorrectChars, MaxTextLen) :
         \E once \in { auto_correct_ocr_errors(t) }, table_once \in { ApplyCommonErrors(t) } :
           corrected' = << [ text |-> t,
                             once |-> once,
                             twice |-> auto_correct_ocr_errors(once),
                             table_once |-> table_once,
                             table_twice |-> ApplyCommonErrors(table_once) ] >>
    /\ UNCHANGED <<configVars, callVars, adapterVars, page, assessment, scored, contextual,
                   fixed, geomVars, storeVars, cliVars>>

\* one call of contextual_number_letter_correction
ContextualCorrect ==
    /\ contextual = <<>>
    /\ \E t \in TextsUpTo(ContextChars, MaxTextLen) :
         contextual' = << [ text |-> t,
                            result |-> contextual_number_letter_correction(t) ] >>
    /\ UNCHANGED <<configVars, callVars, adapterVars, page, assessment, scored, corrected,
                   fixed, geomVars, storeVars, cliVars>>

\* the characters of the texts handed to one correction step alone
FixChars == { "a", "B", " ", ".", ",", "!" }

\* one call of fix_punctuation
FixPunctuation ==
    /\ fixed = <<>>
    /\ \E t \in TextsUpTo(FixChars, MaxTextLen) :
         fixed' = << [ op |-> "fix_punctuation", text |-> t,
                       result |-> fix_punctuation(t) ] >>
    /\ UNCHANGED <<configVars, callVars, adapterVars, page, assessment, scored, corrected,
                   contextual, geomVars, storeVars, cliVars>>

\* one call of fix_capitalization
FixCapitalization ==
    /\ fixed = <<>>
    /\ \E t \in TextsUpTo(FixChars, MaxTextLen) :
         fixed' = << [ op |-> "fix_capitalization", text |-> t,
                       result |-> fix_capitalization(t) ] >>
    /\ UNCHANGED <<configVars, callVars, adapterVars, page, assessment, scored, corrected,
                   contextual, geomVars, storeVars, cliVars>>

\* ---------------------------------------------------------------------------
\* application/use_cases.py : ProcessDocument and EnhancedProcessDocument
\* ---------------------------------------------------------------------------
\* mutation: the default of line 154 (0) used for the score as well
AvgConfidence_DefaultZero(metrics) ==
    IF metrics = {} THEN 0 ELSE CHOOSE c \in metrics : TRUE

\* getattr(ocr_result.metrics, 'average_confidence', 100)
AvgConfidence(metrics) ==
    IF metrics = {} THEN 100000 ELSE CHOOSE c \in metrics : TRUE

\* getattr(ocr_result.metrics, 'average_confidence', 0)
ReportedConfidence(metrics) ==
    IF metrics = {} THEN 0 ELSE CHOOSE c \in metrics : TRUE

\* quality_score of a result: lines 158-159 with extract_with_metrics, line 164 without
QualityScore(withMetrics, metrics) ==
    IF withMetrics THEN AvgConfidence(metrics) ELSE 100000

\* the condition guarding the retry branch, lines 172-174
ShouldRetry(score) ==
    /\ score < min_quality_threshold
    /\ enable_auto_retry
    /\ hasMetricsApi

InitCall ==
    /\ useCase \in {"basic", "enhanced"}
    /\ hasMetricsApi \in BOOLEAN
    /\ min_quality_threshold \in Thresholds
    /\ enable_auto_retry \in BOOLEAN
    /\ maxAttempts \in 1..MaxAttemptsBound
    /\ pc = "start"
    /\ text = <<>>
    /\ quality_score = 0
    /\ ocr_avg_confidence = 0
    /\ attempts = <<>>
    /\ ocrCalls = 0
    /\ warnings = 0
    /\ tables = <<>>
    /\ saveArgs = <<>>
    /\ stored = <<>>
    /\ returned = FALSE
    /\ exception = NoException
    /\ errorRecorded = FALSE
    /\ quality_analysis = {}
    /\ faults = {}

\* mutation: a handler that records the error and does not re-raise, so that
\* __call__ ends without an exception
Raise_Swallowed(kind) ==
    /\ exception' = NoException
    /\ errorRecorded' = (useCase = "enhanced")
    /\ pc' = "done"

\* mutation: a failure of an extraction is swallowed and __call__ goes on to
\* storage.save
Raise_GoesOnToSave(kind) ==
    /\ exception' = NoException
    /\ errorRecorded' = (useCase = "enhanced")
    /\ pc' = IF kind = "OSError" THEN "raised" ELSE "save"

\* An exception raised inside __call__: ProcessDocument has no handler; the
\* handler of EnhancedProcessDocument (lines 224-234) records it and re-raises.
Raise(kind) ==
    /\ exception' = kind
    /\ errorRecorded' = (useCase = "enhanced")
    /\ pc' = "raised"

\* lines 57-58 / 129-143: pdf_path.stat() is outside the try block
Start ==
    /\ pc = "start"
    /\ \E exists \in BOOLEAN :
         IF useCase = "enhanced" /\ ~exists
         THEN /\ exception' = "FileNotFoundError"
              /\ pc' = "raised"
         ELSE /\ pc' = "ocr"
              /\ UNCHANGED exception
    /\ UNCHANGED <<configVars, text, quality_score, ocr_avg_confidence, attempts,
                   ocrCalls, warnings, tables, saveArgs, stored, returned,
                   errorRecorded, quality_analysis, faults>>
    /\ UNCHANGED <<adapterVars, page, assessment, libVars>>

\* line 61 / lines 147-169: the call on the recognition engine
ExtractText ==
    /\ pc = "ocr"
    /\ ocrCalls' = ocrCalls + 1
    /\ \E raises \in BOOLEAN, t \in Texts, metrics \in MetricsObjects :
         IF raises
         THEN /\ Raise("OCRError")
              /\ faults' = faults \cup {"ocr"}
              /\ UNCHANGED <<text, quality_score, ocr_avg_confidence, attempts>>
         ELSE /\ text' = t
              /\ UNCHANGED <<exception, errorRecorded, faults>>
              /\ IF useCase = "basic"
                 THEN /\ pc' = "tables"
                      /\ UNCHANGED <<quality_score, ocr_avg_confidence, attempts>>
                 ELSE /\ pc' = "check"
                      /\ quality_score' = QualityScore(hasMetricsApi, metrics)
                      /\ ocr_avg_confidence' =
                            IF hasMetricsApi THEN ReportedConfidence(metrics)
                                             ELSE QualityScore(hasMetricsApi, metrics)
                      /\ attempts' = Append(attempts,
                            [text |-> t,
                             metrics |-> IF hasMetricsApi THEN metrics ELSE {},
                             score |-> QualityScore(hasMetricsApi, metrics)])
    /\ UNCHANGED <<configVars, warnings, tables, saveArgs, stored, returned,
                   quality_analysis>>
    /\ UNCHANGED <<adapterVars, page, assessment, libVars>>

\* a retry branch that calls the engine again whenever `retry` holds, without
\* counting attempts (used by the two mutations below)
Reextract(retry) ==
    /\ pc = "check"
    /\ pc' = "tables"
    /\ IF retry
       THEN \E t \in Texts, metrics \in MetricsObjects :
              /\ warnings' = warnings + 1
              /\ ocrCalls' = ocrCalls + 1
              /\ text' = t
              /\ quality_score' = QualityScore(hasMetricsApi, metrics)
              /\ ocr_avg_confidence' = ReportedConfidence(metrics)
              /\ attempts' = Append(attempts,
                    [text |-> t, metrics |-> metrics,
                     score |-> QualityScore(hasMetricsApi, metrics)])
       ELSE UNCHANGED <<warnings, ocrCalls, text, quality_score, ocr_avg_confidence,
                        attempts>>
    /\ UNCHANGED <<configVars, tables, saveArgs, stored, returned, exception,
                   errorRecorded, quality_analysis, faults>>
    /\ UNCHANGED <<adapterVars, page, assessment, libVars>>

\* mutation: the retry branch re-runs the engine, whatever the attempt budget
CheckQuality_Reextracts == Reextract(ShouldRetry(quality_score))

\* mutation: the comparison of line 172 inverted, and the branch re-runs the engine
CheckQuality_RetriesOnGood ==
    Reextract(quality_score >= min_quality_threshold /\ enable_auto_retry /\ hasMetricsApi)

\* lines 171-178: a low score only logs a warning, the same result is kept
CheckQuality ==
    /\ pc = "check"
    /\ warnings' = IF ShouldRetry(quality_score) THEN warnings + 1 ELSE warnings
    /\ pc' = "tables"
    /\ UNCHANGED <<configVars, text, quality_score, ocr_avg_confidence, attempts,
                   ocrCalls, tables, saveArgs, stored, returned, exception,
                   errorRecorded, quality_analysis, faults>>
    /\ UNCHANGED <<adapterVars, page, assessment, libVars>>

\* line 64 / lines 180-188
ExtractTables ==
    /\ pc = "tables"
    /\ \E raises \in BOOLEAN, tl \in TableLists :
         IF raises
         THEN /\ Raise("TableExtractionError")
              /\ faults' = faults \cup {"tables"}
              /\ UNCHANGED tables
         ELSE /\ tables' = tl
              /\ pc' = "save"
              /\ UNCHANGED <<exception, errorRecorded, faults>>
    /\ UNCHANGED <<configVars, text, quality_score, ocr_avg_confidence, attempts,
                   ocrCalls, warnings, saveArgs, stored, returned, quality_analysis>>
    /\ UNCHANGED <<adapterVars, page, assessment, libVars>>

\* mutation: storage.save is handed an empty text instead of `text`
Save_DropsText ==
    /\ pc = "save"
    /\ saveArgs' = Append(saveArgs, [text |-> <<>>, tables |-> tables])
    /\ stored' = Append(stored, [text |-> <<>>, tables |-> tables])
    /\ returned' = TRUE
    /\ quality_analysis' = {}
    /\ pc' = "done"
    /\ UNCHANGED <<configVars, text, quality_score, ocr_avg_confidence, attempts,
                   ocrCalls, warnings, tables, exception, errorRecorded, faults>>
    /\ UNCHANGED <<adapterVars, page, assessment, libVars>>

\* lines 66-78 / lines 190-222: storage.save, then the metrics and the return
Save ==
    /\ pc = "save"
    /\ saveArgs' = Append(saveArgs, [text |-> text, tables |-> tables])
    /\ \E raises \in BOOLEAN :
         IF raises
         THEN /\ Raise("OSError")
              /\ faults' = faults \cup {"save"}
              /\ UNCHANGED <<stored, returned, quality_analysis>>
         ELSE /\ stored' = Append(stored, [text |-> text, tables |-> tables])
              /\ returned' = TRUE
              /\ quality_analysis' =
                    IF useCase = "enhanced"
                    THEN {[ocr_quality |-> quality_score,
                           meets_threshold |-> quality_score >= min_quality_threshold]}
                    ELSE {}
              /\ pc' = "done"
              /\ UNCHANGED <<exception, errorRecorded, faults>>
    /\ UNCHANGED <<configVars, text, quality_score, ocr_avg_confidence, attempts,
                   ocrCalls, warnings, tables>>
    /\ UNCHANGED <<adapterVars, page, assessment, libVars>>

\* ---------------------------------------------------------------------------
\* Rasters: one row of pixels, [ch |-> channels, px |-> the pixels]; a pixel of
\* a 3-channel raster is a triple of samples
\* ---------------------------------------------------------------------------
\* grey levels of the pages and of the results of the OpenCV filters
GrayLevels == { 0, 128, 255 }

\* grey levels of the rasters handed to the quality assessor
SampleLevels == { 0, 1, 32, 64, 100, 128, 192, 254, 255 }

ColourPixels == { <<0, 0, 0>>, <<255, 255, 255>>, <<255, 0, 0>> }

GrayOfWidth(w, levels) == { [ch |-> 1, px |-> p] : p \in [1..w -> levels] }

ColourOfWidth(w) == { [ch |-> 3, px |-> p] : p \in [1..w -> ColourPixels] }

Rasters(levels, widest) ==
    UNION { GrayOfWidth(w, levels) \cup ColourOfWidth(w) : w \in 1..widest }

Width(image) == Len(image.px)

Abs(x) == IF x < 0 THEN 0 - x ELSE x

Min2(a, b) == IF a < b THEN a ELSE b

Max2(a, b) == IF a > b THEN a ELSE b

\* the index a border-replicating filter reads for position i of w pixels
Replicate(i, w) == IF i < 1 THEN 1 ELSE IF i > w THEN w ELSE i

\* the index a filter with the default border (reflect 101) reads
Reflect101(i, w) ==
    IF w = 1 THEN 1 ELSE IF i < 1 THEN 2 - i ELSE IF i > w THEN 2 * w - i ELSE i

\* cv2.cvtColor(..., COLOR_RGB2BGR) and COLOR_BGR2RGB: the samples of each pixel reversed
SwapChannels(image) ==
    [ch |-> 3, px |-> [ i \in 1..Width(image) |->
                          <<image.px[i][3], image.px[i][2], image.px[i][1]>> ]]

\* cv2.cvtColor(image, COLOR_BGR2GRAY): (1868 B + 9617 G + 4899 R + 8192) >> 14
BgrToGray(image) ==
    [ch |-> 1, px |-> [ i \in 1..Width(image) |->
        (1868 * image.px[i][1] + 9617 * image.px[i][2] + 4899 * image.px[i][3] + 8192)
            \div 16384 ]]

\* ---------------------------------------------------------------------------
\* adapters/ocr_tesseract_opencv.py : TesseractOpenCVAdapter
\* ---------------------------------------------------------------------------
_pil_to_opencv(pil_image) ==
    IF pil_image.ch = 3 THEN SwapChannels(pil_image) ELSE pil_image

_opencv_to_pil(opencv_image) ==
    IF opencv_image.ch = 1 THEN opencv_image ELSE SwapChannels(opencv_image)

\* the Gaussian window of cv2.adaptiveThreshold for blockSize 11 (sigma 2.0), in
\* ten-thousandths, offsets -5..5
GaussianWindow == <<88, 271, 651, 1216, 1770, 2008, 1770, 1216, 651, 271, 88>>

\* the weighted neighbourhood mean of pixel i (border replicated), rounded
LocalMean(px, i) ==
    (SumSeq([ k \in 1..11 |-> GaussianWindow[k] * px[Replicate(i + k - 6, Len(px))] ])
        + 5000) \div 10000

\* _adaptive_binarization: cv2.adaptiveThreshold(image, 255, GAUSSIAN_C, BINARY, 11, 2)
_adaptive_binarization(image) ==
    [ch |-> 1, px |-> [ i \in 1..Width(image) |->
        IF image.px[i] - LocalMean(image.px, i) > 0 - 2 THEN 255 ELSE 0 ]]

\* erosion and dilation by the 3x3 rectangle; pixels outside the raster are ignored
Erode(px) ==
    [ i \in 1..Len(px) |->
        Min2(px[i], Min2(px[Replicate(i - 1, Len(px))], px[Replicate(i + 1, Len(px))])) ]

Dilate(px) ==
    [ i \in 1..Len(px) |->
        Max2(px[i], Max2(px[Replicate(i - 1, Len(px))], px[Replicate(i + 1, Len(px))])) ]

\* _morphological_operations: MORPH_OPEN then MORPH_CLOSE
_morphological_operations(image) ==
    LET opened == Dilate(Erode(image.px))
        closed == Erode(Dilate(opened))
    IN  [ch |-> 1, px |-> closed]

\* what cv2.HoughLines may return: <<>> stands for None, otherwise the theta of
\* each detected line, in degrees
HoughResults == { <<>>, <<90>>, <<91>>, <<90, 91>> }

\* _correct_skew: no line detected returns the image; with lines, the loop
\* `for rho, theta in lines[:10]` unpacks an element of shape (1, 2) into two
\* names and raises ValueError
_correct_skew(image, lines) ==
    IF lines = <<>>
    THEN [image |-> image, error |-> NoException]
    ELSE [image |-> image, error |-> "ValueError"]

\* mutation: the inclination is corrected on the grayscale raster, before the
\* filters and the binarization
_preprocess_image_deskew_first(image, denoised, enhanced, lines) ==
    LET gray0 == IF image.ch = 3 THEN BgrToGray(image) ELSE image
        skew == IF enable_deskewing THEN _correct_skew(gray0, lines)
                ELSE [image |-> gray0, error |-> NoException]
        gray1 == IF enable_denoising THEN denoised ELSE skew.image
        gray2 == IF enable_contrast_enhancement THEN enhanced ELSE gray1
        applied == <<"gray">>
                   \o (IF enable_deskewing THEN <<"deskew">> ELSE <<>>)
                   \o (IF enable_denoising THEN <<"denoise">> ELSE <<>>)
                   \o (IF enable_contrast_enhancement THEN <<"contrast">> ELSE <<>>)
    IN  IF skew.error # NoException
        THEN [image |-> skew.image, stages |-> <<"gray", "deskew">>, error |-> skew.error]
        ELSE [image |-> _morphological_operations(_adaptive_binarization(gray2)),
              stages |-> applied \o <<"binarize", "morph">>, error |-> NoException]

\* mutation: the denoising stage runs whatever enable_denoising says
_preprocess_image_denoises(image, denoised, enhanced, lines) ==
    LET gray2 == IF enable_contrast_enhancement THEN enhanced ELSE denoised
        binary == _adaptive_binarization(gray2)
    IN  [image |-> _morphological_operations(binary),
         stages |-> <<"gray", "denoise", "binarize", "morph">>, error |-> NoException]

\* _preprocess_image; denoised and enhanced are what the OpenCV filters of
\* _remove_noise and _enhance_contrast return, lines what cv2.HoughLines returns
_preprocess_image(image, denoised, enhanced, lines) ==
    LET gray0 == IF image.ch = 3 THEN BgrToGray(image) ELSE image
        gray1 == IF enable_denoising THEN denoised ELSE gray0
        gray2 == IF enable_contrast_enhancement THEN enhanced ELSE gray1
        binary == _adaptive_binarization(gray2)
        skew == IF enable_deskewing THEN _correct_skew(binary, lines)
                ELSE [image |-> binary, error |-> NoException]
        applied == <<"gray">>
                   \o (IF enable_denoising THEN <<"denoise">> ELSE <<>>)
                   \o (IF enable_contrast_enhancement THEN <<"contrast">> ELSE <<>>)
                   \o <<"binarize">>
                   \o (IF enable_deskewing THEN <<"deskew">> ELSE <<>>)
    IN  IF skew.error # NoException
        THEN [image |-> skew.image, stages |-> applied, error |-> skew.error]
        ELSE [image |-> _morphological_operations(skew.image),
              stages |-> Append(applied, "morph"), error |-> NoException]

InitAdapter ==
    /\ enable_preprocessing \in BOOLEAN
    /\ enable_deskewing \in BOOLEAN
    /\ enable_denoising \in BOOLEAN
    /\ enable_contrast_enhancement \in BOOLEAN
    /\ page = <<>>

\* what an OpenCV filter may return for a raster: any raster of its width
FilterOutcomes(image) == GrayOfWidth(Width(image), GrayLevels)

\* extract_text, lines 114-129: one page of the document (a behaviour runs one
\* of the two pipelines, this one or advanced_preprocessing)
ProcessPage ==
    /\ page = <<>>
    /\ advanced = <<>>
    /\ \E img \in Rasters(GrayLevels, MaxWidth) :
       \E lines \in (IF enable_preprocessing /\ enable_deskewing
                     THEN HoughResults ELSE { <<>> }) :
       \E denoised \in (IF enable_preprocessing /\ enable_denoising
                        THEN FilterOutcomes(img) ELSE { img }) :
       \E enhanced \in (IF enable_preprocessing /\ enable_contrast_enhancement
                        THEN FilterOutcomes(denoised) ELSE { img }) :
         LET opencv_image == _pil_to_opencv(img)
             processed == IF enable_preprocessing
                          THEN _preprocess_image(opencv_image, denoised, enhanced, lines)
                          ELSE [image |-> opencv_image, stages |-> <<>>,
                                error |-> NoException]
         IN  page' = << [image |-> img,
                         handed |-> IF processed.error = NoException
                                    THEN <<_opencv_to_pil(processed.image)>> ELSE <<>>,
                         stages |-> processed.stages,
                         error |-> processed.error] >>
    /\ UNCHANGED <<configVars, callVars, adapterVars, assessment, libVars>>

\* ---------------------------------------------------------------------------
\* utils/image_processor.py : AdvancedImageProcessor.assess_image_quality
\* ---------------------------------------------------------------------------
\* n * sum(x^2) - sum(x)^2 : the variance of the samples xs times n^2
VarianceTimesN2(xs) ==
    Len(xs) * SumSeq([ i \in 1..Len(xs) |-> xs[i] * xs[i] ]) - SumSeq(xs) * SumSeq(xs)

\* the integer square root of x, for x up to 100 * 128 * 128
ISqrt(x) == CHOOSE r \in 0..1280 : r * r <= x /\ x < (r + 1) * (r + 1)

\* cv2.Laplacian(image, cv2.CV_64F): the 3x3 aperture-1 kernel on one row, where
\* the rows above and below reflect onto the row itself
Laplacian(px) ==
    [ i \in 1..Len(px) |->
        px[Reflect101(i - 1, Len(px))] + px[Reflect101(i + 1, Len(px))] - 2 * px[i] ]

\* mutation: the clamp min(1.0, ...) of line 237 left out
calculate_sharpness_unclamped(image) ==
    VarianceTimesN2(Laplacian(image.px)) \div (Width(image) * Width(image))

\* calculate_sharpness: min(1.0, laplacian_var / 1000.0), in thousandths
calculate_sharpness(image) ==
    Min2(1000, VarianceTimesN2(Laplacian(image.px)) \div (Width(image) * Width(image)))

\* calculate_contrast: min(1.0, image.std() / 255.0 * 4), in thousandths; the
\* standard deviation is taken in tenths of a grey level
calculate_contrast(image) ==
    LET n == Width(image)
        std10 == ISqrt((100 * VarianceTimesN2(image.px)) \div (n * n))
    IN  Min2(1000, (4000 * std10) \div (255 * 10))

\* calculate_brightness: 1.0 - 2 * abs(image.mean() / 255.0 - 0.5), in thousandths
calculate_brightness(image) ==
    LET n == Width(image)
    IN  1000 - (1000 * Abs(2 * SumSeq(image.px) - 255 * n)) \div (255 * n)

\* the median of five samples
Median5(vals) ==
    CHOOSE v \in { vals[k] : k \in 1..5 } :
        /\ Cardinality({ k \in 1..5 : vals[k] < v }) <= 2
        /\ Cardinality({ k \in 1..5 : vals[k] <= v }) >= 3

\* cv2.medianBlur(image, 5) on one row (border replicated)
MedianBlur5(px) ==
    [ i \in 1..Len(px) |-> Median5([ k \in 1..5 |-> px[Replicate(i + k - 3, Len(px))] ]) ]

\* calculate_noise: min(1.0, mean(abs(image - median_filtered)) / 50.0), in thousandths
calculate_noise(image) ==
    LET n == Width(image)
        median_filtered == MedianBlur5(image.px)
        total == SumSeq([ i \in 1..n |-> Abs(image.px[i] - median_filtered[i]) ])
    IN  Min2(1000, (1000 * total) \div (50 * n))

\* assess_image_quality: the four sub-scores and the clamped weighted sum
assess_image_quality(image) ==
    LET gray == IF image.ch = 3 THEN BgrToGray(image) ELSE image
        sharpness == calculate_sharpness(gray)
        contrast == calculate_contrast(gray)
        brightness == calculate_brightness(gray)
        noise_level == calculate_noise(gray)
        quality_score_ == (sharpness * 4 + contrast * 3 + brightness * 2
                           + (1000 - noise_level) * 1) \div 10
    IN  [image |-> image, sharpness |-> sharpness, contrast |-> contrast,
         brightness |-> brightness, noise_level |-> noise_level,
         quality_score |-> Min2(1000, Max2(0, quality_score_))]

AssessImage ==
    /\ assessment = <<>>
    /\ \E img \in Rasters(SampleLevels, MaxSampleWidth) :
         assessment' = << assess_image_quality(img) >>
    /\ UNCHANGED <<configVars, callVars, adapterVars, page, libVars>>

\* ---------------------------------------------------------------------------
\* geometric normalization: _correct_skew (adapters/ocr_tesseract_opencv.py),
\* auto_deskew, auto_perspective_correction, order_points and
\* advanced_preprocessing (utils/image_processor.py)
\* ---------------------------------------------------------------------------
\* what cv2.HoughLines may return to auto_deskew: the theta of each line in
\* degrees (its resolution is one degree); the medians are whole degrees, away
\* from the threshold, where rounding of the float32 angles decides nothing
DeskewLines == { <<>>, <<90>>, <<91>>, <<88>>, <<89, 91>>, <<90, 92, 92>> }

\* twice np.median(q): the middle element twice, or the sum of the two middle ones
Median2(q) ==
    LET sorted == SortSeq(q, LAMBDA a, b : a < b)
        n == Len(q)
    IN  IF n % 2 = 1 THEN 2 * sorted[(n + 1) \div 2]
        ELSE sorted[n \div 2] + sorted[n \div 2 + 1]

\* the rotation angles of the detected lines, theta - 90, in degrees
SkewAngles(lines) == [i \in 1..Len(lines) |-> lines[i] - 90]

\* abs(median_angle) > 0.5
IsSignificantSkew(lines) == Abs(Median2(SkewAngles(lines))) > 1

\* auto_deskew; rotation is what rotate_image (cv2.warpAffine) returns
auto_deskew(image, lines, rotation) ==
    IF lines = <<>>
    THEN [image |-> image, rotated |-> FALSE, error |-> NoException]
    ELSE IF IsSignificantSkew(lines)
    THEN [image |-> rotation, rotated |-> TRUE, error |-> NoException]
    ELSE [image |-> image, rotated |-> FALSE, error |-> NoException]

\* the corner points of the page
MaxCoord == 2

Points == (0..MaxCoord) \X (0..MaxCoord)

\* np.argmin and np.argmax: the first index of the least and of the greatest
ArgMin(q) == CHOOSE i \in 1..Len(q) :
                /\ \A j \in 1..Len(q) : q[i] <= q[j]
                /\ \A j \in 1..(i - 1) : q[j] > q[i]

ArgMax(q) == CHOOSE i \in 1..Len(q) :
                /\ \A j \in 1..Len(q) : q[i] >= q[j]
                /\ \A j \in 1..(i - 1) : q[j] < q[i]

\* order_points: pts.sum(axis=1) and np.diff(pts, axis=1), each searched over
\* all four points
order_points(pts) ==
    LET s == [i \in 1..Len(pts) |-> pts[i][1] + pts[i][2]]
        diff == [i \in 1..Len(pts) |-> pts[i][2] - pts[i][1]]
    IN  << pts[ArgMin(s)], pts[ArgMin(diff)], pts[ArgMax(s)], pts[ArgMax(diff)] >>

\* int(np.sqrt(dx^2 + dy^2))
Distance(a, b) ==
    ISqrt((a[1] - b[1]) * (a[1] - b[1]) + (a[2] - b[2]) * (a[2] - b[2]))

\* four_point_transform: the size of the destination, and what
\* cv2.warpPerspective returns
four_point_transform(image, pts, warped) ==
    LET rect == order_points(pts)
        maxWidth == Max2(Distance(rect[3], rect[4]), Distance(rect[2], rect[1]))
        maxHeight == Max2(Distance(rect[2], rect[3]), Distance(rect[1], rect[4]))
    IN  [image |-> warped, rect |-> rect, size |-> <<maxWidth, maxHeight>>]

\* what approxPolyDP may return for the largest contour: <<>> stands for no
\* contour at all; a triangle, two quadrilaterals, a pentagon
ApproxResults ==
    { <<>>,
      << <<0, 0>>, <<2, 0>>, <<1, 2>> >>,
      << <<0, 0>>, <<2, 0>>, <<2, 2>>, <<0, 2>> >>,
      << <<1, 0>>, <<2, 1>>, <<2, 2>>, <<0, 2>> >>,
      << <<0, 0>>, <<1, 0>>, <<2, 1>>, <<1, 2>>, <<0, 2>> >> }

\* auto_perspective_correction
auto_perspective_correction(image, approx, warped) ==
    IF approx = <<>> THEN [image |-> image, warped |-> FALSE]
    ELSE IF Len(approx) = 4
    THEN [image |-> four_point_transform(image, approx, warped).image, warped |-> TRUE]
    ELSE [image |-> image, warped |-> FALSE]

\* two of the rasters a filter may return for a raster: the raster itself and
\* its negative
FilterSamples(image) ==
    { image, [ch |-> 1, px |-> [i \in 1..Width(image) |-> 255 - image.px[i]]] }

\* cv2.morphologyEx(binary, cv2.MORPH_CLOSE, kernel_rect)
MorphClose(image) == [ch |-> 1, px |-> Erode(Dilate(image.px))]

\* advanced_preprocessing, lines 43-71; denoised, warped, enhanced and rotation
\* are what the OpenCV calls return
advanced_preprocessing(image, denoised, approx, warped, enhanced, lines, rotation) ==
    LET corrected_ == auto_perspective_correction(denoised, approx, warped).image
        deskewed == auto_deskew(enhanced, lines, rotation).image
        binary == _adaptive_binarization(deskewed)
    IN  [image |-> MorphClose(binary),
         stages |-> <<"gray", "denoise", "perspective", "contrast", "deskew",
                      "binarize", "morph">>,
         error |-> NoException]

\* one call of _correct_skew on a binary raster
CorrectSkew ==
    /\ geometry = <<>>
    /\ \E w \in 1..MaxWidth : \E img \in GrayOfWidth(w, {0, 255}) :
       \E lines \in HoughResults :
         LET r == _correct_skew(img, lines)
         IN  geometry' = << [op |-> "_correct_skew", image |-> img, found |-> lines,
                             result |-> IF r.error = NoException
                                        THEN <<r.image>> ELSE <<>>,
                             changed |-> FALSE, error |-> r.error] >>
    /\ UNCHANGED <<configVars, callVars, adapterVars, page, assessment, textVars,
                   advanced, ordered, storeVars, cliVars>>

\* one call of auto_deskew
AutoDeskew ==
    /\ geometry = <<>>
    /\ \E w \in 1..MaxWidth : \E img \in GrayOfWidth(w, GrayLevels) :
       \E lines \in DeskewLines :
       \E rotation \in (IF lines # <<>> /\ IsSignificantSkew(lines)
                        THEN FilterOutcomes(img) ELSE { img }) :
         LET r == auto_deskew(img, lines, rotation)
         IN  geometry' = << [op |-> "auto_deskew", image |-> img, found |-> lines,
                             result |-> <<r.image>>, changed |-> r.rotated,
                             error |-> r.error] >>
    /\ UNCHANGED <<configVars, callVars, adapterVars, page, assessment, textVars,
                   advanced, ordered, storeVars, cliVars>>

\* one call of auto_perspective_correction
PerspectiveCorrection ==
    /\ geometry = <<>>
    /\ \E w \in 1..MaxWidth : \E img \in GrayOfWidth(w, GrayLevels) :
       \E approx \in ApproxResults :
       \E warped \in (IF Len(approx) = 4 THEN FilterOutcomes(img) ELSE { img }) :
         LET r == auto_perspective_correction(img, approx, warped)
         IN  geometry' = << [op |-> "auto_perspective_correction", image |-> img,
                             found |-> approx, result |-> <<r.image>>,
                             changed |-> r.warped, error |-> NoException] >>
    /\ UNCHANGED <<configVars, callVars, adapterVars, page, assessment, textVars,
                   advanced, ordered, storeVars, cliVars>>

\* one call of advanced_preprocessing; the processor reads none of the adapter's
\* flags, and is run beside an adapter built with its defaults
AdvancedPreprocess ==
    /\ advanced = <<>>
    /\ page = <<>>
    /\ enable_preprocessing /\ enable_deskewing
    /\ enable_denoising /\ enable_contrast_enhancement
    /\ \E img \in Rasters(GrayLevels, MaxWidth) :
       \E gray \in { IF img.ch = 3 THEN BgrToGray(img) ELSE img } :
       \E denoised \in FilterSamples(gray) :
       \E approx \in ApproxResults :
       \E warped \in (IF Len(approx) = 4 THEN FilterSamples(denoised) ELSE { denoised }) :
       \E enhanced \in FilterSamples(warped) :
       \E lines \in DeskewLines :
       \E rotation \in (IF lines # <<>> /\ IsSignificantSkew(lines)
                        THEN FilterSamples(enhanced) ELSE { enhanced }) :
         LET r == advanced_preprocessing(img, denoised, approx, warped, enhanced,
                                         lines, rotation)
         IN  advanced' = << [image |-> img, result |-> r.image, stages |-> r.stages,
                             error |-> r.error] >>
    /\ UNCHANGED <<configVars, callVars, adapterVars, page, assessment, textVars,
                   geometry, ordered, storeVars, cliVars>>

\* the four corners handed to order_points: pairwise different points
Quadrilaterals ==
    { q \in Points \X Points \X Points \X Points :
        \A i, j \in 1..4 : i # j => q[i] # q[j] }

\* one call of order_points
OrderPoints ==
    /\ ordered = <<>>
    /\ \E pts \in Quadrilaterals :
         ordered' = << [pts |-> pts, rect |-> order_points(pts)] >>
    /\ UNCHANGED <<configVars, callVars, adapterVars, page, assessment, textVars,
                   geometry, advanced, storeVars, cliVars>>

\* ---------------------------------------------------------------------------
\* FileStorage (src/adapters/storage_filesystem.py)
\* ---------------------------------------------------------------------------
\* at most this many calls of save are followed
MaxSaves == 2

\* the base names documents are saved under
StorageNames == { "doc", "otro" }

\* the texts saved: one without a tabular section, one with the header line,
\* a data line and a note, one with the header in lower case and no data
StorageTexts ==
    { <<"H", "o", "l", "a">>,
      <<"I", "T", "E", "M", " ", "D", "E", "T", "A", "L", "L", "E", " ", "U",
      "N", "I", "D", "A", "D", " ", "V", "A", "L", "O", "R", "\n", "1", " ",
      "p", "a", "n", " ", "k", "g", " ", "3", "\n", "n", "o", "t", "a", "s",
      ":", " ", "f", "i", "n">>,
      <<"i", "t", "e", "m", " ", "d", "e", "t", "a", "l", "l", "e", " ", "u",
      "n", "i", "d", "a", "d", " ", "v", "a", "l", "o", "r", "\n", "s", "i",
      "n", " ", "d", "a", "t", "o", "s", "\n", "f", "i", "n">> }

\* the tables a DataFrame may hold: the rows of the tabular section, and a
\* table of other content whose first row has an empty cell
PriceTable ==
    << <<<<"I", "T", "E", "M">>, <<"D", "E", "T", "A", "L", "L", "E">>,
         <<"U", "N", "I", "D", "A", "D">>, <<"V", "A", "L", "O", "R">>>>,
       <<<<"1">>, <<"p", "a", "n">>, <<"k", "g">>, <<"3">>>> >>

OtherTable ==
    << <<<<"x">>, <<>>>>,
       <<<<"y">>, <<"z">>>> >>

StorageTables == { <<>>, <<PriceTable>>, <<OtherTable>>, <<PriceTable, OtherTable>> }

\* the original PDF: a file that is there, or a path where nothing is
Originals ==
    { [path |-> "a.pdf", exists |-> TRUE, bytes |-> "pdf a"],
      [path |-> "b.pdf", exists |-> TRUE, bytes |-> "pdf b"],
      [path |-> "c.pdf", exists |-> FALSE, bytes |-> ""] }

\* the step of save at which the file system refuses (OSError), if any
StorageFaults == { "none", "mkdir", "t", "markdown", "copy" }

\* the contents of the three kinds of file save writes
NoTable == [headers |-> <<>>, rows |-> <<>>]

TextFile(t) == [kind |-> "txt", text |-> t, title |-> "", body |-> <<>>, bytes |-> ""]

MarkdownFile(name, body) ==
    [kind |-> "md", text |-> <<>>, title |-> name, body |-> body, bytes |-> ""]

PdfFile(bytes) == [kind |-> "pdf", text |-> <<>>, title |-> "", body |-> <<>>, bytes |-> bytes]

\* the pieces '\n'.join(result_lines) is made of: a line of the text, or a
\* formatted table
LineItem(line) == [kind |-> "line", line |-> line, table |-> NoTable]

TableItem(table) == [kind |-> "table", line |-> <<>>, table |-> table]

\* sub in s
Contains(s, sub) ==
    \E i \in 1..(Len(s) - Len(sub) + 1) : SubSeq(s, i, i + Len(sub) - 1) = sub

UpperText(s) == [i \in 1..Len(s) |-> Upper(s[i])]

\* line 457: the line holds the four column titles, in any case
IsTableHeaderLine(line) ==
    /\ Contains(UpperText(line), <<"I", "T", "E", "M">>)
    /\ Contains(UpperText(line), <<"D", "E", "T", "A", "L", "L", "E">>)
    /\ Contains(UpperText(line), <<"U", "N", "I", "D", "A", "D">>)
    /\ Contains(UpperText(line), <<"V", "A", "L", "O", "R">>)

\* table.astype(str).values.flatten(): the cells row by row
RECURSIVE Flatten(_)
Flatten(rows) == IF rows = <<>> THEN <<>> ELSE Head(rows) \o Flatten(Tail(rows))

SeqToSet(q) == { q[i] : i \in 1..Len(q) }

\* set(' '.join(pieces).lower().split()): joining with a blank neither merges
\* nor splits words, so these are the words of the pieces
WordSet(pieces) ==
    UNION { SeqToSet(Words(LowerText(pieces[k]))) : k \in 1..Len(pieces) }

\* lines 503-511: the words of the table found among the words of the section,
\* as a fraction n / d of the words of the section
MatchScore(section_lines, table) ==
    LET table_words == WordSet(Flatten(table))
        section_words == WordSet(section_lines)
    IN  [n |-> Cardinality(table_words \cap section_words),
         d |-> Cardinality(section_words)]

\* a / b > c / d for positive b and d
FractionGreater(x, y) == x.n * y.d > y.n * x.d

\* the loop of lines 498-514 from table idx on: the first table not inserted
\* yet whose score is above 0.2 and above every score before it
RECURSIVE BestMatchFrom(_, _, _, _, _, _)
BestMatchFrom(section_lines, dfs, table_inserted, idx, best_match, best_score) ==
    IF idx > Len(dfs) THEN best_match
    ELSE IF table_inserted[idx]
         THEN BestMatchFrom(section_lines, dfs, table_inserted, idx + 1,
                            best_match, best_score)
         ELSE LET score == MatchScore(section_lines, dfs[idx])
              IN  IF /\ score.d > 0
                     /\ FractionGreater(score, best_score)
                     /\ FractionGreater(score, [n |-> 1, d |-> 5])
                  THEN BestMatchFrom(section_lines, dfs, table_inserted, idx + 1,
                                     idx, score)
                  ELSE BestMatchFrom(section_lines, dfs, table_inserted, idx + 1,
                                     best_match, best_score)

\* the index of the table that matches the 15 lines from start_idx best, 0 for
\* none (the code counts from 0 and answers -1)
\* mutation: the tables already inserted are candidates again
_find_best_table_match_any(lines, start_idx, dfs, table_inserted) ==
    BestMatchFrom(SubSeq(lines, start_idx, Min2(Len(lines), start_idx + 14)),
                  dfs, [k \in 1..Len(dfs) |-> FALSE], 1, 0, [n |-> 0, d |-> 1])

_find_best_table_match(lines, start_idx, dfs, table_inserted) ==
    BestMatchFrom(SubSeq(lines, start_idx, Min2(Len(lines), start_idx + 14)),
                  dfs, table_inserted, 1, 0, [n |-> 0, d |-> 1])

\* word.replace('.', '').replace(',', '').replace('-', '').isdigit()
IsNumberWord(word) ==
    LET digits == SelectSeq(word, LAMBDA c : c \notin { ".", ",", "-" })
    IN  digits # <<>> /\ \A i \in 1..Len(digits) : digits[i] \in Digits10

HasNumbers(words) == \E i \in 1..Len(words) : IsNumberWord(words[i])

NarrativeKeywords ==
    { <<"n", "o", "t", "a", "s", ":">>,
      <<"n", "o", "t", "a", ":">>,
      <<"f", "u", "e", "n", "t", "e", "s", ":">>,
      <<"f", "u", "e", "n", "t", "e", ":">>,
      <<"o", "b", "s", "e", "r", "v", "a", "c", "i", "o", "n", "e", "s", ":">> }

\* the index of the first line after the tabular data that follows the header
\* at start_idx
RECURSIVE SkipFrom(_, _)
SkipFrom(lines, i) ==
    IF i > Len(lines) THEN i
    ELSE LET line == Strip(lines[i])
             words == Words(line)
             next_words == Words(Strip(lines[i + 1]))
         IN  IF Len(line) < 5 THEN SkipFrom(lines, i + 1)
             ELSE IF \E keyword \in NarrativeKeywords :
                        Contains(LowerText(line), keyword)
                  THEN i
             ELSE IF /\ Len(words) < 2 \/ ~HasNumbers(words)
                     /\ i + 1 <= Len(lines)
                     /\ Len(next_words) < 2 \/ ~HasNumbers(next_words)
                  THEN i
             ELSE SkipFrom(lines, i + 1)

\* mutation: the scan starts at the header line itself
_skip_table_data_lines_from_header(lines, start_idx) == SkipFrom(lines, start_idx)

_skip_table_data_lines(lines, start_idx) == SkipFrom(lines, start_idx + 1)

\* the column labels of a DataFrame built from rows: 0, 1, 2, ...
ColumnKeys(n) ==
    [i \in 1..n |-> <<(<<"0", "1", "2", "3", "4", "5", "6", "7", "8", "9">>)[i]>>]

\* the table as tabulate prints it: the first row as headers when none of its
\* cells is blank, the column labels otherwise
_format_table_clean(df) ==
    IF df # <<>> /\ \A i \in 1..Len(df[1]) : Strip(df[1][i]) # <<>>
    THEN [headers |-> [i \in 1..Len(df[1]) |-> Strip(df[1][i])], rows |-> Tail(df)]
    ELSE [headers |-> ColumnKeys(IF df = <<>> THEN 0 ELSE Len(df[1])), rows |-> df]

\* the loop of lines 453-474 from line i on
RECURSIVE IntegrateFrom(_, _, _, _)
IntegrateFrom(lines, dfs, table_inserted, i) ==
    IF i > Len(lines) THEN <<>>
    ELSE LET table_idx == IF IsTableHeaderLine(lines[i])
                          THEN _find_best_table_match(lines, i, dfs, table_inserted)
                          ELSE 0
         IN  IF table_idx > 0
             THEN <<TableItem(_format_table_clean(dfs[table_idx]))>>
                  \o IntegrateFrom(lines, dfs,
                                   [table_inserted EXCEPT ![table_idx] = TRUE],
                                   _skip_table_data_lines(lines, i))
             ELSE <<LineItem(lines[i])>>
                  \o IntegrateFrom(lines, dfs, table_inserted, i + 1)

\* text.split('\n')
SplitLines(t) == SplitEachFrom(t, "\n", 1, <<>>)

_integrate_tables_in_text_simple(t, dfs) ==
    IntegrateFrom(SplitLines(t), dfs, [k \in 1..Len(dfs) |-> FALSE], 1)

\* the body of the Markdown document (lines 131-136); a text is the join of
\* its lines
MarkdownBody(t, dfs) ==
    IF dfs # <<>>
    THEN _integrate_tables_in_text_simple(t, dfs)
    ELSE [i \in 1..Len(SplitLines(t)) |-> LineItem(SplitLines(t)[i])]

\* Path.write_text and shutil.copy: the file at path is created or replaced
WriteFile(files, path, content) ==
    { f \in files : f.path # path } \cup { [path |-> path, content |-> content] }

\* document_folder / file name
TextPath(name) == <<name, "texto_completo.txt">>

MarkdownPath(name) == <<name, name \o ".md">>

PdfCopyPath(name) == <<name, name \o "_original.pdf">>

\* save (lines 82-149): the files after the call, the paths returned and the
\* exception raised; every step keeps what the steps before it wrote
save(files, name, t, dfs, original, fault) ==
    LET written == WriteFile(files, TextPath(name), TextFile(t))
        documented == WriteFile(written, MarkdownPath(name),
                                MarkdownFile(name, MarkdownBody(t, dfs)))
        copied == WriteFile(documented, PdfCopyPath(name), PdfFile(original.bytes))
    IN  IF fault = "mkdir"
        THEN [files |-> files, returned |-> <<>>, error |-> "OSError"]
        ELSE IF fault = "t"
        THEN [files |-> files, returned |-> <<>>, error |-> "OSError"]
        ELSE IF fault = "markdown"
        THEN [files |-> written, returned |-> <<>>, error |-> "OSError"]
        ELSE IF fault = "copy" \/ ~original.exists
        THEN [files |-> documented, returned |-> <<>>, error |-> "OSError"]
        ELSE [files |-> copied,
              returned |-> <<TextPath(name), MarkdownPath(name), PdfCopyPath(name)>>,
              error |-> NoException]

\* the texts integrated line by line: at most this many lines
MaxLines == 4

\* the lines a text is made of: the header of the tabular section, a line of
\* data, a note and a short line
LinePool ==
    { <<"I", "T", "E", "M", " ", "D", "E", "T", "A", "L", "L", "E", " ", "U",
      "N", "I", "D", "A", "D", " ", "V", "A", "L", "O", "R">>,
      <<"1", " ", "p", "a", "n", " ", "k", "g", " ", "3">>,
      <<"n", "o", "t", "a", "s", ":", " ", "f", "i", "n">>,
      <<"f", "i", "n">> }

IntegrationTables ==
    { <<PriceTable>>, <<OtherTable>>, <<PriceTable, OtherTable>>,
      <<PriceTable, PriceTable>> }

\* _integrate_tables_in_text_simple is entered with a text and a table list
\* that is not empty (lines 444-452): the locals before the first iteration,
\* and a record of the iterations to come
StartIntegration ==
    /\ integration = <<>>
    /\ \E n \in 1..MaxLines, dfs \in IntegrationTables :
         \E lines \in [1..n -> LinePool] :
            integration' = << [ lines |-> lines,
                                tables |-> dfs,
                                i |-> 1,
                                result_lines |-> <<>>,
                                table_inserted |-> [k \in 1..Len(dfs) |-> FALSE],
                                visited |-> <<>>,
                                matched |-> <<>>,
                                emitted |-> <<>>,
                                skips |-> <<>> ] >>
    /\ UNCHANGED <<configVars, callVars, adapterVars, page, assessment, textVars,
                   geomVars, disk, saves, cliVars>>

\* one iteration of the loop of lines 453-474
IntegrateLine ==
    /\ integration # <<>>
    /\ integration[1].i <= Len(integration[1].lines)
    /\ LET loop == integration[1]
           i == loop.i
           line == loop.lines[i]
       IN  IF IsTableHeaderLine(line)
           THEN \E table_idx \in { _find_best_table_match(loop.lines, i, loop.tables,
                                                           loop.table_inserted) } :
                   IF table_idx > 0 /\ ~loop.table_inserted[table_idx]
                   THEN \E next \in { _skip_table_data_lines(loop.lines, i) } :
                           integration' =
                              << [ loop EXCEPT
                                     !.result_lines =
                                        Append(@, TableItem(_format_table_clean(
                                                              loop.tables[table_idx]))),
                                     !.table_inserted[table_idx] = TRUE,
                                     !.i = next,
                                     !.visited = Append(@, i),
                                     !.matched = Append(@, table_idx),
                                     !.emitted = Append(@, table_idx),
                                     !.skips = Append(@, [header |-> i, next |-> next]) ] >>
                   ELSE integration' =
                           << [ loop EXCEPT
                                  !.result_lines = Append(@, LineItem(line)),
                                  !.i = i + 1,
                                  !.visited = Append(@, i),
                                  !.matched = Append(@, table_idx) ] >>
           ELSE integration' =
                   << [ loop EXCEPT
                          !.result_lines = Append(@, LineItem(line)),
                          !.i = i + 1,
                          !.visited = Append(@, i) ] >>
    /\ UNCHANGED <<configVars, callVars, adapterVars, page, assessment, textVars,
                   geomVars, disk, saves, cliVars>>

\* FileStorage.save is called with a document
SaveDocument ==
    /\ Len(saves) < MaxSaves
    /\ \E name \in StorageNames, t \in StorageTexts, dfs \in StorageTables,
          original \in Originals, fault \in StorageFaults :
         \E r \in { save(disk, name, t, dfs, original, fault) } :
            /\ disk' = r.files
            /\ saves' = Append(saves, [name |-> name, text |-> t,
                                       tables |-> dfs, original |-> original,
                                       returned |-> r.returned, error |-> r.error])
    /\ UNCHANGED <<configVars, callVars, adapterVars, page, assessment, textVars,
                   geomVars, integration, cliVars>>

\* ---------------------------------------------------------------------------
\* interfaces/cli/menu.py : the interactive loop of main()
\* ---------------------------------------------------------------------------
\* at most this many passes of the loop of main are followed
MaxRounds == 2

\* at most this many rejected lines are followed in one session
MaxReprompts == 1

\* what discover_pdf_files may find in the PDF directory
MenuFiles == { <<>>, <<"a.pdf">>, <<"a.pdf", "b.pdf">> }

\* what input() may give: a line that int() rejects, a line that is a number,
\* or Ctrl-C
InputLines ==
    { [kind |-> "text", value |-> 0], [kind |-> "interrupt", value |-> 0] }
        \cup { [kind |-> "number", value |-> v] : v \in 0..6 }

\* utils.menu_logic.validate_menu_selection: the choice is one of the options
validate_menu_selection(choice, total_options) == 1 <= choice /\ choice <= total_options

\* utils.menu_logic.is_exit_selection: the option after the last file is "Salir"
is_exit_selection(selection, file_count) == selection = file_count + 1

\* utils.menu_logic.get_selected_pdf
get_selected_pdf(pdf_files, selection) == pdf_files[selection]

\* one pass of the loop of get_user_pdf_selection (lines 90-102) on one line of
\* input: the choice returned, or a new prompt
get_user_pdf_selection(line, total_options) ==
    IF line.kind = "interrupt" THEN [outcome |-> "KeyboardInterrupt", choice |-> 0]
    ELSE IF line.kind = "number" /\ validate_menu_selection(line.value, total_options)
    THEN [outcome |-> "return", choice |-> line.value]
    ELSE [outcome |-> "prompt", choice |-> 0]

\* mutation: every number is accepted as a type of PDF
get_user_pdf_type_selection_unchecked(line) ==
    IF line.kind = "interrupt" THEN [outcome |-> "KeyboardInterrupt", choice |-> 0]
    ELSE IF line.kind = "number"
    THEN [outcome |-> "return", choice |-> line.value]
    ELSE [outcome |-> "prompt", choice |-> 0]

\* one pass of the loop of get_user_pdf_type_selection (lines 262-270) on one
\* line of input
get_user_pdf_type_selection(line) ==
    IF line.kind = "interrupt" THEN [outcome |-> "KeyboardInterrupt", choice |-> 0]
    ELSE IF line.kind = "number" /\ 1 <= line.value /\ line.value <= 5
    THEN [outcome |-> "return", choice |-> line.value]
    ELSE [outcome |-> "prompt", choice |-> 0]

\* what the session has seen so far: the selections returned to main and the
\* calls of process_document
PdfSelected(choice, exit, file) ==
    [kind |-> "pdf", value |-> choice, exit |-> exit, file |-> file]

TypeSelected(choice) == [kind |-> "type", value |-> choice, exit |-> FALSE, file |-> ""]

Processed(file, pdf_type) ==
    [kind |-> "process", value |-> pdf_type, exit |-> FALSE, file |-> file]

\* main() is entered
StartMain ==
    /\ menu = <<>>
    /\ menu' = << [ pc |-> "discover", rounds |-> 0, reprompts |-> 0,
                    pdf_files |-> <<>>, selected_file |-> "",
                    pdf_type_selection |-> 0, end |-> "", history |-> <<>> ] >>
    /\ UNCHANGED <<configVars, callVars, adapterVars, page, assessment, textVars,
                   geomVars, storeVars>>

\* lines 458-468: the top of the loop; no PDF, or a directory that is not
\* there, ends it
Discover ==
    /\ menu # <<>>
    /\ menu[1].pc = "discover"
    /\ menu[1].rounds < MaxRounds
    /\ \/ \E files \in MenuFiles :
             menu' = << [ menu[1] EXCEPT
                            !.rounds = @ + 1,
                            !.pdf_files = files,
                            !.pc = IF files = <<>> THEN "ended" ELSE "pdf_menu",
                            !.end = IF files = <<>> THEN "no_pdfs" ELSE @ ] >>
       \/ menu' = << [ menu[1] EXCEPT !.rounds = @ + 1, !.pc = "ended",
                                      !.end = "FileNotFoundError" ] >>
    /\ UNCHANGED <<configVars, callVars, adapterVars, page, assessment, textVars,
                   geomVars, storeVars>>

\* lines 470-480: one line is read for the selection of the PDF; the exit
\* option returns from main
ReadPdfSelection ==
    /\ menu # <<>>
    /\ menu[1].pc = "pdf_menu"
    /\ \E line \in InputLines :
         LET m == menu[1]
             n == Len(m.pdf_files)
             r == get_user_pdf_selection(line, n + 1)
         IN  IF r.outcome = "KeyboardInterrupt"
             THEN menu' = << [ m EXCEPT !.pc = "ended", !.end = "KeyboardInterrupt" ] >>
             ELSE IF r.outcome = "prompt"
             THEN /\ m.reprompts < MaxReprompts
                  /\ menu' = << [ m EXCEPT !.reprompts = @ + 1 ] >>
             ELSE IF is_exit_selection(r.choice, n)
             THEN menu' = << [ m EXCEPT
                                 !.pc = "ended", !.end = "exit",
                                 !.history = Append(@, PdfSelected(r.choice, TRUE, "")) ] >>
             ELSE menu' = << [ m EXCEPT
                                 !.pc = "type_menu",
                                 !.selected_file = get_selected_pdf(m.pdf_files, r.choice),
                                 !.history =
                                    Append(@, PdfSelected(r.choice, FALSE,
                                              get_selected_pdf(m.pdf_files, r.choice))) ] >>
    /\ UNCHANGED <<configVars, callVars, adapterVars, page, assessment, textVars,
                   geomVars, storeVars>>

\* lines 485-490: one line is read for the type of PDF; 5 goes back to the
\* top of the loop
ReadPdfType ==
    /\ menu # <<>>
    /\ menu[1].pc = "type_menu"
    /\ \E line \in InputLines :
         LET m == menu[1]
             r == get_user_pdf_type_selection(line)
         IN  IF r.outcome = "KeyboardInterrupt"
             THEN menu' = << [ m EXCEPT !.pc = "ended", !.end = "KeyboardInterrupt" ] >>
             ELSE IF r.outcome = "prompt"
             THEN /\ m.reprompts < MaxReprompts
                  /\ menu' = << [ m EXCEPT !.reprompts = @ + 1 ] >>
             ELSE menu' = << [ m EXCEPT
                                 !.pc = IF r.choice = 5 THEN "discover" ELSE "process",
                                 !.pdf_type_selection = r.choice,
                                 !.history = Append(@, TypeSelected(r.choice)) ] >>
    /\ UNCHANGED <<configVars, callVars, adapterVars, page, assessment, textVars,
                   geomVars, storeVars>>

\* lines 492-505: controller.process_document is called; it reports success
\* or failure and the loop goes on, or it raises and the loop ends
ProcessSelected ==
    /\ menu # <<>>
    /\ menu[1].pc = "process"
    /\ \E outcome \in { "success", "failure", "Exception" } :
         menu' = << [ menu[1] EXCEPT
                        !.pc = IF outcome = "Exception" THEN "ended" ELSE "discover",
                        !.end = IF outcome = "Exception" THEN "Exception" ELSE @,
                        !.history = Append(@, Processed(menu[1].selected_file,
                                                        menu[1].pdf_type_selection)) ] >>
    /\ UNCHANGED <<configVars, callVars, adapterVars, page, assessment, textVars,
                   geomVars, storeVars>>

\* ---------------------------------------------------------------------------
\* Specifications
\* ---------------------------------------------------------------------------
\* one invocation of a use case built with any configuration; the adapter has
\* its constructor defaults (lines 68-71) and processes no page
Init ==
    /\ InitCall
    /\ InitAdapter
    /\ enable_preprocessing /\ enable_deskewing
    /\ enable_denoising /\ enable_contrast_enhancement
    /\ assessment = <<>>
    /\ InitLib

Next ==
    \/ Start
    \/ ExtractText
    \/ CheckQuality
    \/ ExtractTables
    \/ Save

Spec == Init /\ [][Next]_vars

\* the use case with its defaults (lines 97-98), not invoked
IdleCall ==
    /\ InitCall
    /\ useCase = "enhanced" /\ hasMetricsApi
    /\ min_quality_threshold = 60000 /\ enable_auto_retry
    /\ maxAttempts = 1

\* an adapter built with any flags processes a page
InitPage ==
    /\ IdleCall
    /\ InitAdapter
    /\ assessment = <<>>
    /\ InitLib

NextPage == ProcessPage

SpecPage == InitPage /\ [][NextPage]_vars

\* the assessor scores a raster
InitAssess ==
    /\ IdleCall
    /\ InitAdapter
    /\ enable_preprocessing /\ enable_deskewing
    /\ enable_denoising /\ enable_contrast_enhancement
    /\ assessment = <<>>
    /\ InitLib

NextAssess == AssessImage

SpecAssess == InitAssess /\ [][NextAssess]_vars

\* everything but the library classes at rest: the adapter with its defaults,
\* no page processed, no raster assessed
IdleApp ==
    /\ IdleCall
    /\ InitAdapter
    /\ enable_preprocessing /\ enable_deskewing
    /\ enable_denoising /\ enable_contrast_enhancement
    /\ assessment = <<>>

\* the validator scores a text
InitText ==
    /\ IdleApp
    /\ InitLib

NextText == ScoreText

SpecText == InitText /\ [][NextText]_vars

\* the validator corrects a text, and corrects the result again
NextCorrect == CorrectText

SpecCorrect == InitText /\ [][NextCorrect]_vars

\* the validator applies its contextual correction to a text
NextContext == ContextualCorrect

SpecContext == InitText /\ [][NextContext]_vars

\* the validator applies one of its two repair steps to a text
NextFix ==
    \/ FixPunctuation
    \/ FixCapitalization

SpecFix == InitText /\ [][NextFix]_vars

\* the tables are integrated into a text, one line after the other
NextIntegration ==
    \/ StartIntegration
    \/ IntegrateLine

SpecIntegration == InitText /\ [][NextIntegration]_vars

\* one interactive session of main()
NextMenu ==
    \/ StartMain
    \/ Discover
    \/ ReadPdfSelection
    \/ ReadPdfType
    \/ ProcessSelected

SpecMenu == InitText /\ [][NextMenu]_vars

\* one call of a geometric normalization
NextGeometry ==
    \/ CorrectSkew
    \/ AutoDeskew
    \/ PerspectiveCorrection

SpecGeometry == InitText /\ [][NextGeometry]_vars

\* one page through one of the two preprocessing pipelines
NextPipeline ==
    \/ ProcessPage
    \/ AdvancedPreprocess

SpecPipeline == InitPage /\ [][NextPipeline]_vars

\* one call of order_points
NextPoints == OrderPoints

SpecPoints == InitText /\ [][NextPoints]_vars

\* documents are saved one after the other into an empty output directory
NextStorage == SaveDocument

SpecStorage == InitText /\ [][NextStorage]_vars

\* ---------------------------------------------------------------------------
\* Properties
\* ---------------------------------------------------------------------------
Finished == pc \in {"done", "raised"}

\* C1: one invocation of EnhancedProcessDocument.__call__ makes at most
\* maxAttempts calls on the recognition engine and obtains at most maxAttempts
\* extraction attempts, for every attempt budget of at least one.
Thm_C1_AtMostMaxAttempts ==
    useCase = "enhanced" => (ocrCalls <= maxAttempts /\ Len(attempts) <= maxAttempts)

\* a low-scoring document processed to the end under a budget of one attempt
Wit_C1_LowScoreBudgetOne ==
    /\ useCase = "enhanced" /\ pc = "done" /\ maxAttempts = 1
    /\ ocrCalls = 1 /\ Len(attempts) = 1
    /\ attempts[1].score < min_quality_threshold /\ warnings = 1

\* C2: when the first attempt scores 30 against a threshold of 60, auto-retry is
\* enabled and maxAttempts is at least 2, the finished invocation has made a
\* second recognition call, holds exactly two attempts and has stored the text
\* of the second one.
Cex_C2_LowScoreRunsSecondAttempt ==
    ( /\ useCase = "enhanced" /\ pc = "done"
      /\ enable_auto_retry /\ hasMetricsApi /\ maxAttempts >= 2
      /\ min_quality_threshold = 60000
      /\ attempts[1].score = 30000 )
    => ( /\ ocrCalls = 2
         /\ Len(attempts) = 2
         /\ stored[1].text = attempts[2].text )

\* C3: when the first attempt scores at least minQualityThreshold, exactly one
\* recognition call is made, no second attempt exists, and the text handed to
\* storage.save is the first attempt's text.
Thm_C3_GoodScoreOneCall ==
    ( /\ useCase = "enhanced" /\ Len(attempts) >= 1
      /\ attempts[1].score >= min_quality_threshold )
    => ( /\ ocrCalls = 1
         /\ Len(attempts) = 1
         /\ \A k \in 1..Len(saveArgs) : saveArgs[k].text = attempts[1].text )

\* a first attempt scoring 90 against 60, accepted and stored
Wit_C3_Score90Accepted ==
    /\ useCase = "enhanced" /\ pc = "done"
    /\ min_quality_threshold = 60000 /\ attempts[1].score = 90000
    /\ ocrCalls = 1 /\ Len(saveArgs) = 1
    /\ saveArgs[1].text = attempts[1].text /\ attempts[1].text # <<>>

\* C4: whenever the orchestrator finishes with a result, the stored text is the
\* text of an attempt whose score no other attempt exceeds, and at least one
\* attempt was made.
Thm_C4_StoresBestAttempt ==
    (useCase = "enhanced" /\ pc = "done")
    => ( /\ Len(attempts) >= 1
         /\ Len(stored) = 1
         /\ \E i \in 1..Len(attempts) :
              /\ stored[1].text = attempts[i].text
              /\ \A j \in 1..Len(attempts) : attempts[j].score <= attempts[i].score )

\* a finished invocation whose only attempt scored below the threshold and
\* whose non-empty text was stored all the same
Wit_C4_LowScoreStillStored ==
    /\ useCase = "enhanced" /\ pc = "done"
    /\ attempts[1].score < min_quality_threshold
    /\ stored[1].text = attempts[1].text /\ stored[1].text # <<>>

\* C5 as stated: the score compared with the threshold is the confidence the
\* engine reported when it reported one, and otherwise the text composite of
\* calculate_text_quality_score over the extracted text.
Cex_C5_ScoreFallsBackToTextComposite ==
    (useCase = "enhanced" /\ pc \in {"check", "tables", "save", "done"})
    => quality_score =
          IF attempts[1].metrics # {}
          THEN CHOOSE c \in attempts[1].metrics : TRUE
          ELSE calculate_text_quality_score(text)

\* C5 amended: the score compared with the threshold is the confidence the
\* engine reported when it reported one, and otherwise the constant 100.
Thm_C5_ScoreFallsBackTo100 ==
    (useCase = "enhanced" /\ pc \in {"check", "tables", "save", "done"})
    => quality_score =
          IF attempts[1].metrics # {}
          THEN CHOOSE c \in attempts[1].metrics : TRUE
          ELSE 100000

\* an engine with extract_with_metrics whose metrics carry no confidence, on a
\* text whose composite is not the maximum
Wit_C5_NoConfidenceScores100 ==
    /\ useCase = "enhanced" /\ pc = "check" /\ hasMetricsApi
    /\ attempts[1].metrics = {} /\ quality_score = 100000
    /\ calculate_text_quality_score(text) < 1000

\* C6 as stated: when the recognition engine raised, the invocation still
\* finishes without an exception and with an empty text stored.
Cex_C6_EngineFailureDegrades ==
    ("ocr" \in faults /\ Finished)
    => ( /\ exception = NoException
         /\ Len(stored) = 1
         /\ stored[1].text = <<>> )

\* C6 amended: when the recognition engine raised, its exception leaves
\* ProcessDocument / EnhancedProcessDocument (the latter records it in its
\* metrics first), storage.save is never called and nothing is returned.
Thm_C6_EngineFailurePropagates ==
    "ocr" \in faults
    => ( /\ pc = "raised" /\ exception = "OCRError"
         /\ saveArgs = <<>> /\ stored = <<>> /\ ~returned
         /\ errorRecorded = (useCase = "enhanced") )

Wit_C6_EngineRaised ==
    /\ "ocr" \in faults /\ useCase = "enhanced" /\ pc = "raised" /\ errorRecorded

\* C7 as stated: when table extraction raised, storage.save is still called,
\* with the extracted text and an empty table list, and the caller gets its result.
Cex_C7_TableFailureDegrades ==
    ("tables" \in faults /\ Finished)
    => ( /\ Len(saveArgs) = 1
         /\ saveArgs[1].text = text /\ saveArgs[1].tables = <<>>
         /\ returned )

\* C7 amended: when table extraction raised, its exception leaves
\* ProcessDocument / EnhancedProcessDocument, storage.save is never called and
\* nothing is returned, although the text had been extracted.
Thm_C7_TableFailurePropagates ==
    "tables" \in faults
    => ( /\ pc = "raised" /\ exception = "TableExtractionError"
         /\ saveArgs = <<>> /\ stored = <<>> /\ ~returned )

Wit_C7_TablesRaisedAfterText ==
    /\ "tables" \in faults /\ pc = "raised" /\ text # <<>> /\ ocrCalls = 1

\* C8: when storage.save raised, the exception reaches the caller: the
\* invocation ends raised with that exception and returns no tuple.
Thm_C8_SaveFailurePropagates ==
    "save" \in faults
    => (pc = "raised" /\ exception = "OSError" /\ ~returned /\ stored = <<>>)

Wit_C8_SaveRaised ==
    /\ "save" \in faults /\ pc = "raised" /\ Len(saveArgs) = 1

AllFlagsFalse ==
    ~enable_deskewing /\ ~enable_denoising /\ ~enable_contrast_enhancement

\* C9 as stated: with enable_deskewing, enable_denoising and
\* enable_contrast_enhancement all false, no stage is applied and the raster
\* handed to the recognition engine is identical to the input.
Cex_C9_FlagsFalseIsPassthrough ==
    (page # <<>> /\ AllFlagsFalse)
    => (page[1].stages = <<>> /\ page[1].handed = <<page[1].image>>)

\* C9 amended: with enable_preprocessing false no stage is applied and the
\* raster handed to the engine is identical to the input; with
\* enable_preprocessing true and the three flags false, denoising, contrast
\* enhancement and deskewing are skipped but grayscale conversion, adaptive
\* binarization and the morphological operations still run, so the raster
\* handed over has one channel of samples 0 or 255.
Thm_C9_PassthroughOnlyWithoutPreprocessing ==
    /\ (page # <<>> /\ ~enable_preprocessing)
       => (page[1].stages = <<>> /\ page[1].handed = <<page[1].image>>)
    /\ (page # <<>> /\ enable_preprocessing /\ AllFlagsFalse)
       => ( /\ page[1].stages = <<"gray", "binarize", "morph">>
            /\ Len(page[1].handed) = 1
            /\ page[1].handed[1].ch = 1
            /\ \A i \in 1..Width(page[1].handed[1]) :
                 page[1].handed[1].px[i] \in {0, 255} )

\* a black pixel that the pipeline with all three flags false turns white
Wit_C9_FlagsFalseChangesRaster ==
    /\ page # <<>> /\ enable_preprocessing /\ AllFlagsFalse
    /\ page[1].image = [ch |-> 1, px |-> <<0>>]
    /\ page[1].handed = << [ch |-> 1, px |-> <<255>>] >>

InUnit(x) == 0 <= x /\ x <= 1000

\* C10: for every raster, the composite of assess_image_quality and each of the
\* four sub-scores it combines lie in [0, 1].
Thm_C10_AssessmentInUnitInterval ==
    assessment # <<>>
    => ( /\ InUnit(assessment[1].quality_score)
         /\ InUnit(assessment[1].sharpness)
         /\ InUnit(assessment[1].contrast)
         /\ InUnit(assessment[1].brightness)
         /\ InUnit(assessment[1].noise_level) )

\* a raster with a sharp edge and a noisy pixel: the Laplacian variance is far
\* above 1000 and the noise estimate is positive
Wit_C10_SharpNoisyRaster ==
    /\ assessment # <<>>
    /\ assessment[1].image = [ch |-> 1, px |-> <<0, 255, 0>>]
    /\ assessment[1].sharpness = 1000 /\ assessment[1].noise_level > 0

InTextUnit(x) == 0 <= x /\ x <= 1000

\* C11: calculate_text_quality_score returns a value in [0, 1] for every text,
\* 0 for an empty or whitespace-only text, and each of the five terms it
\* weights (word ratio, punctuation ratio, capitalization score, one minus the
\* special-character ratio, line consistency) lies in [0, 1].
Thm_C11_TextScoreInUnitInterval ==
    scored # <<>>
    => ( /\ InTextUnit(scored[1].quality_score)
         /\ InTextUnit(scored[1].word_ratio)
         /\ InTextUnit(scored[1].punctuation_ratio)
         /\ InTextUnit(scored[1].capitalization_score)
         /\ InTextUnit(scored[1].special_chars_term)
         /\ InTextUnit(scored[1].line_consistency)
         /\ ((\A i \in 1..Len(scored[1].text) : scored[1].text[i] \in Whitespace)
                => scored[1].quality_score = 0) )

\* a text of two problematic characters in one word, scored
Wit_C11_ProblematicTextScored ==
    /\ scored # <<>>
    /\ scored[1].text = <<"#", "#">>
    /\ scored[1].special_chars_term = 0
    /\ scored[1].quality_score > 0

\* C12: correcting a corrected text changes nothing:
\* auto_correct_ocr_errors(auto_correct_ocr_errors(t)) = auto_correct_ocr_errors(t),
\* and the substitution table applied to its own output changes nothing.
Cex_C12_CorrectionIdempotent ==
    corrected # <<>>
    => ( /\ corrected[1].twice = corrected[1].once
         /\ corrected[1].table_twice = corrected[1].table_once )

\* C13: geometric normalization never fails: whatever the detectors find,
\* _correct_skew, auto_deskew and auto_perspective_correction return a raster
\* and raise nothing.
Cex_C13_GeometryNeverRaises ==
    geometry # <<>>
    => (geometry[1].error = NoException /\ Len(geometry[1].result) = 1)

\* stage a is never applied after stage b
NeverAfter(stages, a, b) ==
    \A i, j \in 1..Len(stages) : (stages[i] = a /\ stages[j] = b) => i < j

\* C17 as stated: in both pipelines the geometric stages come first: deskew is
\* never applied after binarization and perspective correction never after
\* denoising.
Cex_C17_GeometryFirst ==
    /\ page # <<>> => NeverAfter(page[1].stages, "deskew", "binarize")
    /\ advanced # <<>>
       => ( /\ NeverAfter(advanced[1].stages, "deskew", "binarize")
            /\ NeverAfter(advanced[1].stages, "perspective", "denoise") )

AdapterStageOrder == <<"gray", "denoise", "contrast", "binarize", "deskew", "morph">>

ProcessorStageOrder ==
    <<"gray", "denoise", "perspective", "contrast", "deskew", "binarize", "morph">>

StageEnabled(stage) ==
    \/ stage \in {"gray", "binarize", "morph"}
    \/ stage = "denoise" /\ enable_denoising
    \/ stage = "contrast" /\ enable_contrast_enhancement
    \/ stage = "deskew" /\ enable_deskewing

IsPrefix(p, q) == Len(p) <= Len(q) /\ p = SubSeq(q, 1, Len(p))

\* C17 amended: each pipeline applies its stages in one fixed order. The
\* adapter applies the enabled ones of grayscale, denoise, contrast,
\* binarization, deskew, morphology in that order (deskew after binarization),
\* all of them when no stage raises; advanced_preprocessing applies grayscale,
\* denoise, perspective correction, contrast, deskew, binarization, morphology
\* in that order (perspective correction after denoising).
Thm_C17_FixedStageOrders ==
    /\ (page # <<>> /\ enable_preprocessing)
       => ( /\ IsPrefix(page[1].stages,
                        SelectSeq(AdapterStageOrder, LAMBDA st : StageEnabled(st)))
            /\ page[1].error = NoException
               => page[1].stages =
                      SelectSeq(AdapterStageOrder, LAMBDA st : StageEnabled(st)) )
    /\ advanced # <<>> => advanced[1].stages = ProcessorStageOrder

\* a page on which every stage of the adapter ran, deskew after binarization
Wit_C17_AllAdapterStages ==
    /\ page # <<>>
    /\ page[1].stages = AdapterStageOrder
    /\ page[1].error = NoException

\* C18: skew correction returns its input unchanged when no line is detected or
\* when the median angle is at most 0.5 degrees in absolute value, and rotates
\* only when it exceeds 0.5 degrees.
Cex_C18_SmallSkewUnchanged ==
    (geometry # <<>> /\ geometry[1].op \in {"_correct_skew", "auto_deskew"})
    => ( /\ (geometry[1].found = <<>> \/ ~IsSignificantSkew(geometry[1].found))
            => ( /\ geometry[1].error = NoException
                 /\ geometry[1].result = <<geometry[1].image>>
                 /\ ~geometry[1].changed )
         /\ geometry[1].changed
            => (geometry[1].found # <<>> /\ IsSignificantSkew(geometry[1].found)) )

SumOf(pt) == pt[1] + pt[2]

DiffOf(pt) == pt[2] - pt[1]

\* C19: order_points returns top-left, top-right, bottom-right, bottom-left:
\* top-left has the least x+y, bottom-right the greatest, and top-right and
\* bottom-left are the two remaining points, top-right the one with the lesser
\* y-x.
Cex_C19_CornersFromRemainingTwo ==
    ordered # <<>>
    => LET pts == ordered[1].pts
           rect == ordered[1].rect
       IN  /\ \A i \in 1..4 : SumOf(rect[1]) <= SumOf(pts[i])
           /\ \A i \in 1..4 : SumOf(rect[3]) >= SumOf(pts[i])
           /\ { rect[i] : i \in 1..4 } = { pts[i] : i \in 1..4 }
           /\ DiffOf(rect[2]) <= DiffOf(rect[4])

\* C20: in contextual_number_letter_correction every token whose preceding or
\* following token is an article or a preposition has its digits 0, 1 and 5
\* replaced by O, l and S.
Cex_C20_NeighbourOfFunctionWord ==
    contextual # <<>>
    => LET words == Words(contextual[1].text)
           out == Words(contextual[1].result)
           IsFunctionWord(w) == LowerText(w) \in articles \cup prepositions
       IN  /\ Len(out) = Len(words)
           /\ \A i \in 1..Len(words) :
                ( \/ (i > 1 /\ IsFunctionWord(words[i - 1]))
                  \/ (i < Len(words) /\ IsFunctionWord(words[i + 1])) )
                => out[i] = DigitsToLetters(words[i])

\* the calls of save made with this base name
SavesOf(name) == { i \in 1..Len(saves) : saves[i].name = name }

\* the files of the output directory that lie in the folder of this document
FilesOf(name) == { f \in disk : f.path[1] = name }

\* C14: save is atomic: when the only call of save made for a document raised
\* part-way, no file of that document is left in the output directory.
Cex_C14_FailedSaveLeavesNothing ==
    \A i \in 1..Len(saves) :
       (saves[i].error # NoException /\ SavesOf(saves[i].name) = {i})
          => FilesOf(saves[i].name) = {}

\* the three files a completed call of save wrote for its document
ResultsOf(call) ==
    { [path |-> TextPath(call.name), content |-> TextFile(call.text)],
      [path |-> MarkdownPath(call.name),
       content |-> MarkdownFile(call.name, MarkdownBody(call.text, call.tables))],
      [path |-> PdfCopyPath(call.name), content |-> PdfFile(call.original.bytes)] }

\* the same files, wherever in the output directory they are kept
Retained(call) ==
    \A r \in ResultsOf(call) : \E f \in disk : f.content = r.content

\* C15: two different documents saved under the same name are both retained:
\* the second save overwrites none of the three files of the first.
Cex_C15_SameNameBothRetained ==
    \A i, j \in 1..Len(saves) :
       ( /\ i < j
         /\ saves[i].name = saves[j].name
         /\ saves[i].error = NoException
         /\ saves[j].error = NoException
         /\ <<saves[i].text, saves[i].tables, saves[i].original>>
              # <<saves[j].text, saves[j].tables, saves[j].original>> )
          => Retained(saves[i]) /\ Retained(saves[j])

\* C16: the Markdown file of a saved document holds every table of a
\* non-empty table list, formatted, whatever the text is.
Cex_C16_MarkdownHoldsEveryTable ==
    \A i \in 1..Len(saves) :
       ( /\ saves[i].error = NoException
         /\ saves[i].tables # <<>>
         /\ \A j \in SavesOf(saves[i].name) : j <= i )
          => \E f \in disk :
                /\ f.path = MarkdownPath(saves[i].name)
                /\ \A k \in 1..Len(saves[i].tables) :
                      \E n \in 1..Len(f.content.body) :
                         f.content.body[n]
                            = TableItem(_format_table_clean(saves[i].tables[k]))

\* a token made of digits, '.' and ',' only
IsNumericToken(word) ==
    word # <<>> /\ \A k \in 1..Len(word) : word[k] \in Digits10 \cup { ".", "," }

\* the tokens of the text handed to the contextual correction and of its result
TokensIn == Words(contextual[1].text)

TokensOut == Words(contextual[1].result)

\* the token before token i is an article or a preposition, or the token after
\* it is an article
AfterFunctionWordOrBeforeArticle(i) ==
    \/ i > 1 /\ LowerText(TokensIn[i - 1]) \in articles \cup prepositions
    \/ i < Len(TokensIn) /\ LowerText(TokensIn[i + 1]) \in articles

Cex_C22_PunctuationSpacingNormal ==
    (fixed # <<>> /\ fixed[1].op = "fix_punctuation") =>
       LET r == fixed[1].result
       IN  \A i \in 1..Len(r) :
              r[i] \in PunctuationMarks =>
                 /\ i > 1 => r[i - 1] \notin Whitespace
                 /\ i < Len(r) => r[i + 1] = " "
                 /\ i + 1 < Len(r) => r[i + 2] \notin Whitespace

\* C23: fix_capitalization changes nothing but the case of letters: its result
\* has the characters of its text, terminators included, up to case.
Cex_C23_CapitalizationOnlyChangesCase ==
    (fixed # <<>> /\ fixed[1].op = "fix_capitalization") =>
       /\ Len(fixed[1].result) = Len(fixed[1].text)
       /\ \A i \in 1..Len(fixed[1].text) :
             Lower(fixed[1].result[i]) = Lower(fixed[1].text[i])

\* the text is made of sentences that each start with an upper-case letter and
\* end with a terminator: it starts with an upper-case letter, ends with a
\* terminator, and whatever follows a terminator and the blanks after it is an
\* upper-case letter or another terminator
WellCapitalized(t) ==
    /\ t # <<>>
    /\ t[1] \in UpperLetters
    /\ t[Len(t)] \in Terminators
    /\ \A i \in 1..(Len(t) - 1) :
          t[i] \in Terminators =>
             /\ NextNonBlank(t, i + 1) # <<>>
             /\ NextNonBlank(t, i + 1)[1] \in UpperLetters \cup Terminators

\* C24: a text whose sentences all start with an upper-case letter and end
\* with '.', '!' or '?' has the capitalization score 1.0.
Cex_C24_CapitalizedSentencesScoreOne ==
    (scored # <<>> /\ WellCapitalized(scored[1].text)) =>
       scored[1].capitalization_score = 1000

\* C25: storage.save is called at most once per invocation, and only after
\* the text extraction and the table extraction both returned; when either
\* raises, save is not called and the exception leaves __call__.
Thm_C25_SaveOnceAfterBothExtractions ==
    /\ Len(saveArgs) <= 1
    /\ saveArgs # <<>> =>
          /\ ocrCalls >= 1
          /\ pc \in {"done", "raised"}
          /\ faults \cap {"ocr", "tables"} = {}
          /\ saveArgs[1] = [text |-> text, tables |-> tables]
    /\ faults \cap {"ocr", "tables"} # {} =>
          /\ saveArgs = <<>>
          /\ pc = "raised"
          /\ exception \in {"OCRError", "TableExtractionError"}

\* both extractions returned and save was called once with their results
Wit_C25_SavedAfterTextAndTables ==
    /\ pc = "done"
    /\ Len(saveArgs) = 1
    /\ saveArgs[1].text = <<"O", "k", ".">>
    /\ saveArgs[1].tables = <<"t1", "t2">>

\* C26: in the metrics EnhancedProcessDocument returns, the reported
\* ocr_metrics.average_confidence equals quality_analysis.ocr_quality, also for
\* a result whose metrics object carries no average_confidence.
Cex_C26_ReportedConfidenceIsQuality ==
    (useCase = "enhanced" /\ returned) =>
       /\ quality_analysis # {}
       /\ \A q \in quality_analysis : q.ocr_quality = ocr_avg_confidence

\* C27: order_points returns a permutation of its four points: each of four
\* different input points stands at exactly one of the four output positions.
Cex_C27_OrderIsPermutation ==
    ordered # <<>> =>
       \A i \in 1..4 :
          Cardinality({ k \in 1..4 : ordered[1].rect[k] = ordered[1].pts[i] }) = 1

\* the loop of _integrate_tables_in_text_simple has left its last line behind
IntegrationDone ==
    integration # <<>> /\ integration[1].i > Len(integration[1].lines)

\* C28: every iteration of the loop strictly increases the line index, and
\* the index _skip_table_data_lines returns is greater than the index of the
\* header line it was given; the index never passes the end of the text by
\* more than one, so the loop ends.
Thm_C28_LineIndexStrictlyIncreases ==
    integration # <<>> =>
       LET loop == integration[1]
       IN  /\ \A k \in 1..(Len(loop.visited) - 1) : loop.visited[k] < loop.visited[k + 1]
           /\ loop.visited # <<>> => loop.visited[Len(loop.visited)] < loop.i
           /\ \A k \in 1..Len(loop.skips) : loop.skips[k].next > loop.skips[k].header
           /\ loop.i <= Len(loop.lines) + 1

\* a table took the place of a header and of the data lines after it, and
\* the loop came to its end
Wit_C28_DataLinesSkipped ==
    /\ IntegrationDone
    /\ \E k \in 1..Len(integration[1].skips) :
          integration[1].skips[k].next > integration[1].skips[k].header + 1

\* C29: each table is inserted at most once, whatever the number of header
\* lines: a table already inserted is neither matched nor emitted again.
Thm_C29_TableInsertedAtMostOnce ==
    integration # <<>> =>
       LET loop == integration[1]
       IN  /\ \A j, k \in 1..Len(loop.emitted) :
                 loop.emitted[j] = loop.emitted[k] => j = k
           /\ \A j, k \in 1..Len(loop.matched) :
                 (loop.matched[j] = loop.matched[k] /\ loop.matched[j] > 0) => j = k
           /\ \A k \in 1..Len(loop.tables) :
                 loop.table_inserted[k] <=> \E j \in 1..Len(loop.emitted) : loop.emitted[j] = k
           /\ Cardinality({ n \in 1..Len(loop.result_lines) :
                               loop.result_lines[n].kind = "table" })
                 = Len(loop.emitted)

\* a text with two header lines and one matching table: the table was
\* inserted at the first header and the second header stayed a line of text
Wit_C29_SecondHeaderKeepsLine ==
    /\ IntegrationDone
    /\ integration[1].tables = <<PriceTable>>
    /\ integration[1].matched = <<1, 0>>
    /\ integration[1].emitted = <<1>>

\* C30: process_document is called only right after a type of PDF in 1..4
\* that was chosen right after a PDF that is not the exit option, and for that
\* PDF; the type 5 leads back to the top of the loop and to no processing;
\* the exit option ends the session; no type outside 1..5 is ever returned.
Thm_C30_ProcessOnlyAfterPdfAndType ==
    menu # <<>> =>
       LET h == menu[1].history
       IN  \A k \in 1..Len(h) :
              /\ h[k].kind = "process" =>
                    /\ k >= 3
                    /\ h[k - 1].kind = "type" /\ h[k - 1].value \in 1..4
                    /\ h[k - 2].kind = "pdf" /\ ~h[k - 2].exit
                    /\ h[k].file = h[k - 2].file
                    /\ h[k].value = h[k - 1].value
              /\ h[k].kind = "type" =>
                    /\ h[k].value \in 1..5
                    /\ k >= 2 /\ h[k - 1].kind = "pdf" /\ ~h[k - 1].exit
                    /\ h[k].value = 5 =>
                          IF k = Len(h)
                          THEN menu[1].pc \in {"discover", "pdf_menu", "ended"}
                          ELSE h[k + 1].kind = "pdf"
              /\ (h[k].kind = "pdf" /\ h[k].exit) =>
                    /\ k = Len(h)
                    /\ menu[1].pc = "ended" /\ menu[1].end = "exit"

\* the user went back with type 5, chose the second PDF and type 3, and the
\* document was processed
Wit_C30_BackThenProcessed ==
    /\ menu # <<>>
    /\ Len(menu[1].history) = 5
    /\ menu[1].history[2] = TypeSelected(5)
    /\ menu[1].history[5] = Processed("b.pdf", 3)
====
